---- MODULE Spec2Model ----
(***************************************************************************)
(* A model of the request-size limiting code of axum-jetpack:              *)
(*   - SizeLimitConfig::get_limit_for_content_type  (config.rs)            *)
(*   - BufferStrategy::should_buffer                (middleware.rs)        *)
(*   - SizeLimitService::call and its stream wrappers (service.rs)         *)
(*   - with_size_limit, buffer_with_limit, stream_with_limit               *)
(*                                                    (middleware.rs)      *)
(*                                                                         *)
(* Representation.                                                         *)
(*   A string is a sequence of one-character strings.                      *)
(*   Option<T> is a sequence of length 0 (None) or 1 (Some(x)).            *)
(*   A HashMap<String, usize> is a function whose DOMAIN is its key set.   *)
(*   usize is USIZE_BITS wide; every addition the code makes is modelled   *)
(*   with that width (checked_add fails above USIZE_MAX, += wraps).        *)
(***************************************************************************)
EXTENDS Integers, Sequences, FiniteSets, TLC

VARIABLES
    pc,             \* position of the request future / of the call under test
    config,         \* SizeLimitConfig
    strategy,       \* BufferStrategy
    ct_arg,         \* content_type argument of the function under test
    out,            \* Option: value returned by the last call of the function
    base_out,       \* Option: value returned by the first call on this input
    error_arg,      \* Option: error argument of the function under test
    pipelines,      \* concurrent requests: request id -> the state of its future
    builder_arg,    \* Option: the arguments of the builder method under test
    readiness,      \* Option: what inner.poll_ready returned and what poll_ready
                    \* made of it
    req,            \* the request: its headers and what its body will produce
    prod_pos,       \* number of items taken from the body's data stream
    max_size,       \* the limit resolved for the request (max_size / limit)
    first_chunk,    \* Option<Bytes>: first_chunk_bytes, then ChainedStream.first_chunk
    total_read,     \* total_read of SizeLimitService::call
    sls,            \* SizeLimitedStream: [max_size, bytes_read, has_errored]
    scb,            \* SizeCheckingBody: [max_size, bytes_read, has_errored]
    delivered,      \* the items the handler has received from its body, in order
    last_poll,      \* outcome of the handler's latest poll of its body
    handler_calls,  \* number of times the inner service / next was invoked
    handler_ret,    \* Option: what the inner service returned
    response,       \* Option: the response sent to the client
    collected,      \* buffer_with_limit: the chunks to_bytes has collected
    task,           \* stream_with_limit: the spawned forwarding task
    chan,           \* the mpsc channel tx/rx (buffered path: the frames of
                    \* Body::from(bytes)), oldest item first
    limit_exceeded, \* stream_with_limit: the shared AtomicBool
    handler_signal, \* stream_with_limit: the oneshot handler_tx/handler_rx
    rx_dropped      \* stream_with_limit: the request future, with rx, is gone

vars == <<pc, config, strategy, ct_arg, out, base_out, error_arg, pipelines, builder_arg,
          readiness,
          req, prod_pos, max_size,
          first_chunk, total_read, sls, scb, delivered, last_poll,
          handler_calls, handler_ret, response, collected, task, chan,
          limit_exceeded, handler_signal, rx_dropped>>

mwVars == <<collected, task, chan, limit_exceeded, handler_signal, rx_dropped>>

reqVars == <<req, prod_pos, max_size, first_chunk, total_read, sls, scb,
             delivered, last_poll, handler_calls, handler_ret, response, mwVars>>

None == <<>>
Some(x) == <<x>>

----------------------------------------------------------------------------
(* Bounds of the model *)

\* longest content-type string that is enumerated
MaxCtLen == 3

\* number of requests in flight at once through one service
Concurrent == 2
\* longest buffered_types / streamed_types list that is enumerated
MaxTypes == 2
\* largest number of items (chunks, errors) a request body produces
MaxItems == 3
\* width of usize in bits
USIZE_BITS == 25

----------------------------------------------------------------------------
(* Strings *)

UpperCase == <<"A", "B", "C", "D", "E", "F", "G", "H", "I", "J", "K", "L", "M",
               "N", "O", "P", "Q", "R", "S", "T", "U", "V", "W", "X", "Y", "Z">>
LowerCase == <<"a", "b", "c", "d", "e", "f", "g", "h", "i", "j", "k", "l", "m",
               "n", "o", "p", "q", "r", "s", "t", "u", "v", "w", "x", "y", "z">>

\* char::is_whitespace, restricted to the characters a header value can hold
WhiteSpace == {" ", "\t"}

SetMin(S) == CHOOSE x \in S : \A y \in S : x <= y
SetMax(S) == CHOOSE x \in S : \A y \in S : y <= x

\* str::to_lowercase
to_lowercase(s) ==
    [i \in 1..Len(s) |->
        IF \E k \in 1..Len(UpperCase) : UpperCase[k] = s[i]
        THEN LowerCase[CHOOSE k \in 1..Len(UpperCase) : UpperCase[k] = s[i]]
        ELSE s[i]]

\* str::find(c): Option of the (1-based) position of the first c
find(s, c) ==
    LET hits == {i \in 1..Len(s) : s[i] = c}
    IN  IF hits = {} THEN None ELSE Some(SetMin(hits))

\* s.split(c).next().unwrap_or(s): the text before the first c
split_next(s, c) ==
    IF find(s, c) = None THEN s ELSE SubSeq(s, 1, find(s, c)[1] - 1)

\* str::trim
trim(s) ==
    LET keep == {i \in 1..Len(s) : s[i] \notin WhiteSpace}
    IN  IF keep = {} THEN <<>> ELSE SubSeq(s, SetMin(keep), SetMax(keep))

\* str::starts_with
starts_with(s, p) == Len(p) <= Len(s) /\ SubSeq(s, 1, Len(p)) = p

\* str::ends_with
ends_with(s, p) ==
    Len(p) <= Len(s) /\ SubSeq(s, Len(s) - Len(p) + 1, Len(s)) = p

\* all strings over the character set C of length at most n
RECURSIVE StringsUpTo(_, _)
StringsUpTo(C, n) ==
    IF n = 0 THEN {<<>>}
    ELSE LET shorter == StringsUpTo(C, n - 1)
         IN  shorter \cup {Append(s, c) : s \in shorter, c \in C}

----------------------------------------------------------------------------
(* SizeLimitConfig (config.rs) *)

\* the normalisation with the trim before the cut at ';'
ct_trimmed_wrong_order(content_type) ==
    to_lowercase(split_next(trim(content_type), ";"))
\* the two normalisation statements at the head of get_limit_for_content_type
\* and of should_buffer: lower-case, cut at the first ';', trim
ct_trimmed_of(content_type) ==
    trim(split_next(to_lowercase(content_type), ";"))

\* format!("{}/*", &ct_trimmed[..slash_pos])
wildcard_of(ct_trimmed, slash_pos) ==
    SubSeq(ct_trimmed, 1, slash_pos - 1) \o <<"/", "*">>

get_limit_wildcard_first(cfg, content_type) ==
    LET ct_trimmed == ct_trimmed_of(content_type)
        slash == find(ct_trimmed, "/")
    IN  IF slash # None
           /\ wildcard_of(ct_trimmed, slash[1]) \in DOMAIN cfg.wildcard_limits
        THEN cfg.wildcard_limits[wildcard_of(ct_trimmed, slash[1])]
        ELSE IF ct_trimmed \in DOMAIN cfg.specific_limits
        THEN cfg.specific_limits[ct_trimmed]
        ELSE cfg.default_limit

get_limit_for_content_type(cfg, content_type) ==
    LET ct_trimmed == ct_trimmed_of(content_type)
        slash == find(ct_trimmed, "/")
    IN  IF ct_trimmed \in DOMAIN cfg.specific_limits
        THEN cfg.specific_limits[ct_trimmed]
        ELSE IF slash # None
                /\ wildcard_of(ct_trimmed, slash[1]) \in DOMAIN cfg.wildcard_limits
        THEN cfg.wildcard_limits[wildcard_of(ct_trimmed, slash[1])]
        ELSE cfg.default_limit

\* HashMap::insert
insert(map, key, value) ==
    [k \in DOMAIN map \cup {key} |-> IF k = key THEN value ELSE map[k]]

\* with_specific_limit storing the type as it was given
with_specific_limit_verbatim(cfg, mime_type, limit) ==
    [cfg EXCEPT !.specific_limits = insert(@, mime_type, limit)]

\* SizeLimitConfig::with_specific_limit
with_specific_limit(cfg, mime_type, limit) ==
    [cfg EXCEPT !.specific_limits = insert(@, to_lowercase(mime_type), limit)]

\* with_wildcard_limit forgetting the exact entries
with_wildcard_limit_resets(cfg, wildcard, limit) ==
    [cfg EXCEPT !.wildcard_limits = insert(@, to_lowercase(wildcard), limit),
                !.specific_limits = <<>>]

\* SizeLimitConfig::with_default_limit, of a limit given in bytes
with_default_limit(cfg, limit) == [cfg EXCEPT !.default_limit = limit]

\* SizeLimitConfig::with_wildcard_limit
with_wildcard_limit(cfg, wildcard, limit) ==
    [cfg EXCEPT !.wildcard_limits = insert(@, to_lowercase(wildcard), limit)]

\* the configurations the resolver is exercised with: every combination of
\* these exact and wildcard entries (each entry has its own value, so the
\* value returned tells which entry was used)
SpecificPool == [k \in {<<"a", "/", "a">>, <<"a">>} |-> IF k = <<"a">> THEN 12 ELSE 11]
WildcardPool == [k \in {<<"a", "/", "*">>, <<"/", "*">>} |-> IF k = <<"/", "*">> THEN 22 ELSE 21]

Restrict(f, S) == [k \in S |-> f[k]]

LimitConfigs ==
    {[default_limit |-> 1,
      specific_limits |-> Restrict(SpecificPool, sk),
      wildcard_limits |-> Restrict(WildcardPool, wk),
      error_format |-> "SimpleJson"] :
        sk \in SUBSET DOMAIN SpecificPool, wk \in SUBSET DOMAIN WildcardPool}

\* characters of the enumerated content types
CtChars == {"a", "A", "/", ";", " "}
CtStrings == StringsUpTo(CtChars, MaxCtLen)

----------------------------------------------------------------------------
(* BufferStrategy (middleware.rs) *)

\* BufferStrategy::new()
BufferStrategy_new ==
    [buffered_types |-> <<>>, streamed_types |-> <<>>, default_is_buffered |-> FALSE]

\* the content types the constructors of BufferStrategy name, and video/mp4
APPLICATION_JSON == <<"a", "p", "p", "l", "i", "c", "a", "t", "i", "o", "n",
                      "/", "j", "s", "o", "n">>
MULTIPART_FORM_DATA == <<"m", "u", "l", "t", "i", "p", "a", "r", "t", "/",
                         "f", "o", "r", "m", "-", "d", "a", "t", "a">>
TEXT_ANY == <<"t", "e", "x", "t", "/", "*">>
APPLICATION_XML == <<"a", "p", "p", "l", "i", "c", "a", "t", "i", "o", "n",
                     "/", "x", "m", "l">>
FORM_URLENCODED == <<"a", "p", "p", "l", "i", "c", "a", "t", "i", "o", "n",
                     "/", "x", "-", "w", "w", "w", "-", "f", "o", "r", "m",
                     "-", "u", "r", "l", "e", "n", "c", "o", "d", "e", "d">>
VIDEO_ANY == <<"v", "i", "d", "e", "o", "/", "*">>
IMAGE_ANY == <<"i", "m", "a", "g", "e", "/", "*">>
AUDIO_ANY == <<"a", "u", "d", "i", "o", "/", "*">>
VIDEO_MP4 == <<"v", "i", "d", "e", "o", "/", "m", "p", "4">>
OCTET_STREAM == <<"a", "p", "p", "l", "i", "c", "a", "t", "i", "o", "n", "/",
                  "o", "c", "t", "e", "t", "-", "s", "t", "r", "e", "a", "m">>

\* BufferStrategy::with_defaults()
BufferStrategy_with_defaults ==
    [buffered_types |-> <<APPLICATION_JSON, MULTIPART_FORM_DATA, TEXT_ANY,
                          APPLICATION_XML, FORM_URLENCODED>>,
     streamed_types |-> <<VIDEO_ANY, IMAGE_ANY, AUDIO_ANY, OCTET_STREAM>>,
     default_is_buffered |-> FALSE]

\* all_buffered with the default of all_streamed
BufferStrategy_all_buffered_default_streamed ==
    [buffered_types |-> <<>>, streamed_types |-> <<>>, default_is_buffered |-> FALSE]

\* BufferStrategy::all_buffered()
BufferStrategy_all_buffered ==
    [buffered_types |-> <<>>, streamed_types |-> <<>>, default_is_buffered |-> TRUE]

\* BufferStrategy::all_streamed()
BufferStrategy_all_streamed ==
    [buffered_types |-> <<>>, streamed_types |-> <<>>, default_is_buffered |-> FALSE]

\* a search that looks at the first entry of the list only
any_eq_first_only(list, x) == list # <<>> /\ list[1] = x

\* list.iter().any(|t| t == x)
any_eq(list, x) == \E i \in 1..Len(list) : list[i] = x

\* the "partial wildcard" loops of should_buffer: some entry ends with "/*" and
\* the entry without its '*' is a prefix of the content type
any_prefix(list, ct_trimmed) ==
    \E i \in 1..Len(list) :
        /\ ends_with(list[i], <<"/", "*">>)
        /\ starts_with(ct_trimmed, SubSeq(list[i], 1, Len(list[i]) - 1))

should_buffer_wildcard_before_exact(strat, content_type) ==
    LET ct_trimmed == ct_trimmed_of(content_type)
        slash == find(ct_trimmed, "/")
    IN  IF any_eq(strat.buffered_types, ct_trimmed) THEN TRUE
        ELSE IF slash # None
                /\ any_eq(strat.buffered_types, wildcard_of(ct_trimmed, slash[1]))
        THEN TRUE
        ELSE IF any_eq(strat.streamed_types, ct_trimmed) THEN FALSE
        ELSE IF slash # None
                /\ any_eq(strat.streamed_types, wildcard_of(ct_trimmed, slash[1]))
        THEN FALSE
        ELSE IF any_prefix(strat.buffered_types, ct_trimmed) THEN TRUE
        ELSE IF any_prefix(strat.streamed_types, ct_trimmed) THEN FALSE
        ELSE strat.default_is_buffered

should_buffer(strat, content_type) ==
    LET ct_trimmed == ct_trimmed_of(content_type)
        slash == find(ct_trimmed, "/")
    IN  IF any_eq(strat.buffered_types, ct_trimmed) THEN TRUE
        ELSE IF any_eq(strat.streamed_types, ct_trimmed) THEN FALSE
        ELSE IF slash # None
                /\ any_eq(strat.buffered_types, wildcard_of(ct_trimmed, slash[1]))
        THEN TRUE
        ELSE IF slash # None
                /\ any_eq(strat.streamed_types, wildcard_of(ct_trimmed, slash[1]))
        THEN FALSE
        ELSE IF any_prefix(strat.buffered_types, ct_trimmed) THEN TRUE
        ELSE IF any_prefix(strat.streamed_types, ct_trimmed) THEN FALSE
        ELSE strat.default_is_buffered

\* the patterns the strategies are built from: an exact type, its wildcard,
\* and a wildcard that only the prefix rule can match ("//*" for "//a")
TypePool == {<<"a", "/", "a">>, <<"a", "/", "*">>, <<"/", "/", "*">>}
TypeLists == StringsUpTo(TypePool, MaxTypes)

\* the strategies with at most MaxTypes patterns in their two lists
Strategies ==
    {strat \in [buffered_types : TypeLists, streamed_types : TypeLists,
                default_is_buffered : BOOLEAN] :
        Len(strat.buffered_types) + Len(strat.streamed_types) <= MaxTypes}

\* the strategies the constructors return
ConstructedStrategies ==
    {BufferStrategy_new, BufferStrategy_with_defaults, BufferStrategy_all_buffered,
     BufferStrategy_all_streamed}

\* content types of real requests, next to the enumerated strings
NamedTypes ==
    {APPLICATION_JSON, VIDEO_MP4, OCTET_STREAM,
     <<"V", "i", "d", "e", "o", "/", "M", "P", "4">>,
     APPLICATION_JSON \o <<";", " ", "c", "h", "a", "r", "s", "e", "t", "=", "u", "t",
                           "f", "-", "8">>}

----------------------------------------------------------------------------
(* Requests *)

EosItemShape ==
    [kind |-> "eos", id |-> 0, len |-> 0, err |-> [tag |-> "none", limit |-> 0, actual |-> 0]]
EmptyStreamState == [max_size |-> 0, bytes_read |-> 0, has_errored |-> FALSE]
NoPoll == [result |-> "none", inner_polled |-> FALSE, producer_polled |-> FALSE]

IdleTask == [pc |-> "idle", total_size |-> 0, item |-> EosItemShape]
EmptySignal == [state |-> "empty", value |-> FALSE]

\* with_size_limit is not running
NoMiddleware ==
    /\ collected = <<>>
    /\ task = IdleTask
    /\ chan = <<>>
    /\ limit_exceeded = FALSE
    /\ handler_signal = EmptySignal
    /\ rx_dropped = FALSE

\* no request is being processed
NoRequest ==
    /\ req = [content_type |-> None, content_length |-> None, body |-> <<>>]
    /\ prod_pos = 0
    /\ max_size = 0
    /\ first_chunk = None
    /\ total_read = 0
    /\ sls = EmptyStreamState
    /\ scb = EmptyStreamState
    /\ delivered = <<>>
    /\ last_poll = NoPoll
    /\ handler_calls = 0
    /\ handler_ret = None
    /\ response = None
    /\ NoMiddleware

----------------------------------------------------------------------------
(* Calls of the two pure functions *)

FlipCase(c) ==
    IF \E k \in 1..Len(UpperCase) : UpperCase[k] = c
    THEN LowerCase[CHOOSE k \in 1..Len(UpperCase) : UpperCase[k] = c]
    ELSE IF \E k \in 1..Len(LowerCase) : LowerCase[k] = c
    THEN UpperCase[CHOOSE k \in 1..Len(LowerCase) : LowerCase[k] = c]
    ELSE c

\* parameters a client may append after the type
ParamStrings == StringsUpTo(CtChars, 1)

LimitInit ==
    /\ pc = "limit_ready"
    /\ config \in LimitConfigs
    /\ strategy = BufferStrategy_new
    /\ ct_arg \in CtStrings
    /\ out = None
    /\ base_out = None
    /\ error_arg = None
    /\ pipelines = <<>>
    /\ builder_arg = None
    /\ readiness = None
    /\ NoRequest

\* config.get_limit_for_content_type(ct_arg)
GetLimit ==
    /\ pc \in {"limit_ready", "variant_ready"}
    /\ out' = Some(get_limit_for_content_type(config, ct_arg))
    /\ base_out' = IF pc = "limit_ready" THEN out' ELSE base_out
    /\ pc' = IF pc = "limit_ready" THEN "limit_done" ELSE "variant_done"
    /\ UNCHANGED <<config, strategy, ct_arg, error_arg, pipelines, builder_arg, readiness,
                   reqVars>>

\* the next request carries a variant of the same type ...
Revary(ct) ==
    /\ pc = "limit_done"
    /\ ct # ct_arg
    /\ ct_arg' = ct
    /\ out' = None
    /\ pc' = "variant_ready"
    /\ UNCHANGED <<config, strategy, base_out, error_arg, pipelines, builder_arg, readiness,
                   reqVars>>

\* ... in another letter case
VaryCase == \E i \in 1..Len(ct_arg) :
    Revary([ct_arg EXCEPT ![i] = FlipCase(ct_arg[i])])

\* ... with ';'-delimited parameters appended
VaryParams == \E p \in ParamStrings : Revary(ct_arg \o <<";">> \o p)

\* ... with whitespace around it
VaryWhitespace == \E l \in {<<>>, <<" ">>}, r \in {<<>>, <<" ">>, <<"\t">>} :
    Revary(l \o ct_arg \o r)

\* ... already normalised
VaryNormalized == Revary(ct_trimmed_of(ct_arg))

LimitNext ==
    \/ GetLimit
    \/ VaryCase
    \/ VaryParams
    \/ VaryWhitespace
    \/ VaryNormalized

SpecLimit == LimitInit /\ [][LimitNext]_vars

BufferInit ==
    /\ pc = "buffer_ready"
    /\ config \in {c \in LimitConfigs : DOMAIN c.specific_limits = {} /\ DOMAIN c.wildcard_limits = {}}
    /\ strategy \in Strategies \cup ConstructedStrategies
    /\ ct_arg \in CtStrings \cup NamedTypes
    /\ out = None
    /\ base_out = None
    /\ error_arg = None
    /\ pipelines = <<>>
    /\ builder_arg = None
    /\ readiness = None
    /\ NoRequest

\* strategy.should_buffer(ct_arg)
ShouldBuffer ==
    /\ pc = "buffer_ready"
    /\ out' = Some(should_buffer(strategy, ct_arg))
    /\ pc' = "buffer_done"
    /\ UNCHANGED <<config, strategy, ct_arg, base_out, error_arg, pipelines, builder_arg, readiness,
                   reqVars>>

BufferNext == ShouldBuffer

SpecBuffer == BufferInit /\ [][BufferNext]_vars

----------------------------------------------------------------------------
(* should_buffer on a strategy and on the same strategy with its lists
   rearranged *)

\* the strategies with_buffered_types and with_streamed_types build from at
\* most MaxTypes patterns each
RearrangeStrategies ==
    [buffered_types : TypeLists, streamed_types : TypeLists, default_is_buffered : BOOLEAN]

RearrangeTypes ==
    {<<"a", "/", "a">>, <<"A", "/", "a", ";">>, <<"a", "/", "b">>, <<"/", "/", "a">>,
     <<"a">>, <<"b", "/", "a">>}

Reverse(list) == [i \in 1..Len(list) |-> list[Len(list) + 1 - i]]

\* a list with the same patterns: in another order, with every pattern
\* twice, or both
Rearranged(list) == {list, Reverse(list), list \o list, list \o Reverse(list)}

RearrangeInit ==
    /\ pc = "buffer_ready"
    /\ config \in {c \in LimitConfigs : DOMAIN c.specific_limits = {} /\ DOMAIN c.wildcard_limits = {}}
    /\ strategy \in RearrangeStrategies
    /\ ct_arg \in RearrangeTypes
    /\ out = None
    /\ base_out = None
    /\ error_arg = None
    /\ pipelines = <<>>
    /\ builder_arg = None
    /\ readiness = None
    /\ NoRequest

\* rearranged.should_buffer(ct_arg), for a strategy whose lists hold the
\* patterns of `strategy`
ShouldBufferRearranged ==
    /\ pc = "buffer_done"
    /\ \E b \in Rearranged(strategy.buffered_types), s \in Rearranged(strategy.streamed_types) :
          LET rearranged == [strategy EXCEPT !.buffered_types = b, !.streamed_types = s]
          IN  base_out' = Some([strategy |-> rearranged,
                                result |-> should_buffer(rearranged, ct_arg)])
    /\ pc' = "buffer_rearranged"
    /\ UNCHANGED <<config, strategy, ct_arg, out, error_arg, pipelines, builder_arg,
                   readiness, reqVars>>

RearrangeNext ==
    \/ ShouldBuffer
    \/ ShouldBufferRearranged

SpecRearrange == RearrangeInit /\ [][RearrangeNext]_vars

----------------------------------------------------------------------------
(* Sizes, errors and body items *)

USIZE_MAX == 2^USIZE_BITS - 1

\* an addition of usize that wraps instead of failing
wrapping_checked_add(a, b) == Some((a + b) % (USIZE_MAX + 1))

\* usize::checked_add
checked_add(a, b) == IF a + b > USIZE_MAX THEN None ELSE Some(a + b)

MAX_INDIVIDUAL_CHUNK_SIZE == 16 * 1024 * 1024

\* SizeLimitError, and the errors of the body's producer ("Transport")
NoError == [tag |-> "none", limit |-> 0, actual |-> 0]
BodyTooLarge(m, a) == [tag |-> "BodyTooLarge", limit |-> m, actual |-> a]
ChunkTooLarge(m, a) == [tag |-> "ChunkTooLarge", limit |-> m, actual |-> a]
SizeOverflow == [tag |-> "SizeOverflow", limit |-> 0, actual |-> 0]
Other == [tag |-> "Other", limit |-> 0, actual |-> 0]
TransportError == [tag |-> "Transport", limit |-> 0, actual |-> 0]

\* what a poll of a stream or body returns: Ready(Some(Ok(chunk))),
\* Ready(Some(Err(e))), Ready(None), Pending.  A chunk is its position in the
\* producer's output and its length.
ChunkItem(id, len) == [kind |-> "chunk", id |-> id, len |-> len, err |-> NoError]
ErrItem(e) == [kind |-> "err", id |-> 0, len |-> 0, err |-> e]
EosItem == [kind |-> "eos", id |-> 0, len |-> 0, err |-> NoError]
PendingItem == [kind |-> "pending", id |-> 0, len |-> 0, err |-> NoError]

\* the number of bytes in a sequence of items
RECURSIVE SumLenOf(_)
SumLenOf(items) ==
    IF items = <<>> THEN 0 ELSE items[1].len + SumLenOf(Tail(items))

\* the chunk lengths a producer yields: empty, small ones, the chunk ceiling
\* and the first length above it
ChunkSizes == {0, 1, 2, MAX_INDIVIDUAL_CHUNK_SIZE, MAX_INDIVIDUAL_CHUNK_SIZE + 1}

\* what a body will produce: chunks and transport errors, then end of stream
Bodies ==
    UNION {
        {[i \in 1..n |-> IF f[i] = -1 THEN ErrItem(TransportError)
                                      ELSE ChunkItem(i, f[i])] :
            f \in [1..n -> ChunkSizes \cup {-1}]} :
        n \in 0..MaxItems}

\* body.into_data_stream().poll_next: the next item, or Pending when the
\* producer is not ready; after the last item the stream stays ended
data_stream_poll(body, pos, ready) ==
    IF ~ready THEN PendingItem
    ELSE IF pos < Len(body) THEN body[pos + 1]
    ELSE EosItem

\* HeaderValue::to_str: fails on a value that is not visible ASCII
OpaqueByte == "0x80"
to_str(value) == IF OpaqueByte \in {value[i] : i \in 1..Len(value)} THEN None ELSE Some(value)

APPLICATION_ANY == <<"a", "p", "p", "l", "i", "c", "a", "t", "i", "o", "n", "/", "*">>

\* the content type of a request without a usable header taken to be empty
content_type_of_empty(request) ==
    IF request.content_type = None \/ to_str(request.content_type[1]) = None
    THEN <<>>
    ELSE to_str(request.content_type[1])[1]
\* headers().get("content-type").and_then(|ct| ct.to_str().ok())
\*     .unwrap_or("application/octet-stream")
content_type_of(request) ==
    IF request.content_type = None \/ to_str(request.content_type[1]) = None
    THEN OCTET_STREAM
    ELSE to_str(request.content_type[1])[1]

\* str::parse::<usize>: decimal digits after an optional '+'; no digits, any
\* other character, or a value above usize::MAX is an error (None)
Digits == <<"0", "1", "2", "3", "4", "5", "6", "7", "8", "9">>
IsDigit(c) == \E k \in 1..Len(Digits) : Digits[k] = c
DigitValue(c) == (CHOOSE k \in 1..Len(Digits) : Digits[k] = c) - 1

RECURSIVE parse_digits(_, _)
parse_digits(s, acc) ==
    IF s = <<>> THEN Some(acc)
    ELSE IF ~IsDigit(s[1]) THEN None
    ELSE IF acc * 10 + DigitValue(s[1]) > USIZE_MAX THEN None
    ELSE parse_digits(Tail(s), acc * 10 + DigitValue(s[1]))

parse_usize(s) ==
    IF s = <<>> THEN None
    ELSE IF s[1] = "+" THEN (IF Len(s) = 1 THEN None ELSE parse_digits(Tail(s), 0))
    ELSE parse_digits(s, 0)

\* the Content-Length the request declares, when the header is present, is
\* text and parses as usize
declared_length(request) ==
    IF request.content_length = None THEN None
    ELSE IF to_str(request.content_length[1]) = None THEN None
    ELSE parse_usize(to_str(request.content_length[1])[1])

----------------------------------------------------------------------------
(* ErrorFormat (error.rs) *)

\* IntoResponse for SizeLimitError: the status of the response
into_response_status(error) ==
    CASE error.tag = "BodyTooLarge" -> 413
      [] error.tag = "Other" -> 400
      [] error.tag = "SizeOverflow" -> 400
      [] error.tag = "ChunkTooLarge" -> 413

\* handle_error with a PlainText arm that answers SizeOverflow with 413
handle_error_status_overflow_413(format, error) ==
    CASE format.kind = "SimpleJson" -> into_response_status(error)
      [] format.kind = "JsonApi" ->
            (CASE error.tag = "BodyTooLarge" -> 413
               [] error.tag = "Other" -> 400
               [] error.tag = "SizeOverflow" -> 400
               [] error.tag = "ChunkTooLarge" -> 413)
      [] format.kind = "PlainText" ->
            (CASE error.tag = "BodyTooLarge" -> 413
               [] error.tag = "Other" -> 400
               [] error.tag = "SizeOverflow" -> 413
               [] error.tag = "ChunkTooLarge" -> 413)
      [] format.kind = "Custom" -> format.status

\* ErrorFormat::handle_error: the status of the response.  A Custom format
\* is the status its function returns.
handle_error_status(format, error) ==
    CASE format.kind = "SimpleJson" -> into_response_status(error)
      [] format.kind = "JsonApi" ->
            (CASE error.tag = "BodyTooLarge" -> 413
               [] error.tag = "Other" -> 400
               [] error.tag = "SizeOverflow" -> 400
               [] error.tag = "ChunkTooLarge" -> 413)
      [] format.kind = "PlainText" ->
            (CASE error.tag = "BodyTooLarge" -> 413
               [] error.tag = "Other" -> 400
               [] error.tag = "SizeOverflow" -> 400
               [] error.tag = "ChunkTooLarge" -> 413)
      [] format.kind = "Custom" -> format.status

Response(status, origin, error) ==
    [status |-> status, origin |-> origin, error |-> error]

handle_error(format, error) ==
    Response(handle_error_status(format, error), "handle_error", error)

SimpleJson == [kind |-> "SimpleJson", status |-> 0]
JsonApi == [kind |-> "JsonApi", status |-> 0]
PlainText == [kind |-> "PlainText", status |-> 0]
Custom(status) == [kind |-> "Custom", status |-> status]

\* Display of an error, reduced to what SizeLimitService::call looks for in
\* it: the phrases "Body too large" and "Maximum size is", and the number
\* after the first "got " (none of the SizeLimitError texts has one; note
\* that ChunkTooLarge prints "Maximum chunk size is")
ErrorText(btl, msi, got) ==
    [has_body_too_large |-> btl, has_maximum_size_is |-> msi, got |-> got]
to_string(error) ==
    CASE error.tag = "BodyTooLarge" -> ErrorText(TRUE, TRUE, None)
      [] error.tag = "ChunkTooLarge" -> ErrorText(FALSE, FALSE, None)
      [] error.tag = "SizeOverflow" -> ErrorText(FALSE, FALSE, None)
      [] OTHER -> ErrorText(FALSE, FALSE, None)

\* extract_actual_size_from_error
extract_actual_size_from_error(text) == text.got

----------------------------------------------------------------------------
(* SizeLimitService (service.rs) *)

\* the first-item block of call without its size checks
first_chunk_check_no_limit(limit, item) ==
    CASE item.kind = "chunk" ->
            [outcome |-> "first", error |-> NoError, total_read |-> item.len]
      [] item.kind = "err" ->
            [outcome |-> "stream_error", error |-> item.err, total_read |-> 0]
      [] item.kind = "eos" ->
            [outcome |-> "empty", error |-> NoError, total_read |-> 0]

\* the block with the limit tested before the ceiling of a single chunk
first_chunk_check_limit_first(limit, item) ==
    CASE item.kind = "chunk" ->
            IF checked_add(0, item.len) = None
            THEN [outcome |-> "reject", error |-> SizeOverflow, total_read |-> 0]
            ELSE IF checked_add(0, item.len)[1] > limit
            THEN [outcome |-> "reject",
                  error |-> BodyTooLarge(limit, checked_add(0, item.len)[1]),
                  total_read |-> checked_add(0, item.len)[1]]
            ELSE IF item.len > MAX_INDIVIDUAL_CHUNK_SIZE
            THEN [outcome |-> "reject",
                  error |-> ChunkTooLarge(MAX_INDIVIDUAL_CHUNK_SIZE, item.len),
                  total_read |-> 0]
            ELSE [outcome |-> "first", error |-> NoError,
                  total_read |-> checked_add(0, item.len)[1]]
      [] item.kind = "err" ->
            [outcome |-> "stream_error", error |-> item.err, total_read |-> 0]
      [] item.kind = "eos" ->
            [outcome |-> "empty", error |-> NoError, total_read |-> 0]

\* the `while let Some(result) = stream.next().await` block of call, applied
\* to the first item of the stream
first_chunk_check(limit, item) ==
    CASE item.kind = "chunk" ->
            IF item.len > MAX_INDIVIDUAL_CHUNK_SIZE
            THEN [outcome |-> "reject",
                  error |-> ChunkTooLarge(MAX_INDIVIDUAL_CHUNK_SIZE, item.len),
                  total_read |-> 0]
            ELSE IF checked_add(0, item.len) = None
            THEN [outcome |-> "reject", error |-> SizeOverflow, total_read |-> 0]
            ELSE IF checked_add(0, item.len)[1] > limit
            THEN [outcome |-> "reject",
                  error |-> BodyTooLarge(limit, checked_add(0, item.len)[1]),
                  total_read |-> checked_add(0, item.len)[1]]
            ELSE [outcome |-> "first", error |-> NoError,
                  total_read |-> checked_add(0, item.len)[1]]
      [] item.kind = "err" ->
            [outcome |-> "stream_error", error |-> item.err, total_read |-> 0]
      [] item.kind = "eos" ->
            [outcome |-> "empty", error |-> NoError, total_read |-> 0]

\* a drop that latches a body that was not read to its limit
SizeCheckingBody_drop_latches(this) ==
    IF ~this.has_errored /\ this.bytes_read < this.max_size
    THEN [this EXCEPT !.has_errored = TRUE]
    ELSE this

\* PinnedDrop for SizeCheckingBody: the fields when drop returns.  The body
\* of its `if` is empty.
SizeCheckingBody_drop(this) ==
    IF ~this.has_errored /\ this.bytes_read < this.max_size
    THEN this
    ELSE this

\* the constructors with a counter that starts at zero
new_stream_state_unseeded(limit, initial_bytes) ==
    [max_size |-> limit, bytes_read |-> 0, has_errored |-> FALSE]

\* SizeLimitedStream::new / SizeCheckingBody::new
new_stream_state(limit, initial_bytes) ==
    [max_size |-> limit, bytes_read |-> initial_bytes, has_errored |-> FALSE]

PollResult(this, item, polled) ==
    [this |-> this, out |-> item, polled_inner |-> polled]

\* SizeLimitedStream::poll_next counting the chunk it rejects as BodyTooLarge
SizeLimitedStream_poll_next_counts_rejected(this, inner) ==
    IF this.has_errored THEN PollResult(this, EosItem, FALSE)
    ELSE CASE inner.kind = "pending" -> PollResult(this, PendingItem, TRUE)
           [] inner.kind = "eos" -> PollResult(this, EosItem, TRUE)
           [] inner.kind = "chunk" ->
                IF inner.len > MAX_INDIVIDUAL_CHUNK_SIZE
                THEN PollResult([this EXCEPT !.has_errored = TRUE],
                        ErrItem(ChunkTooLarge(MAX_INDIVIDUAL_CHUNK_SIZE, inner.len)),
                        TRUE)
                ELSE IF checked_add(this.bytes_read, inner.len) = None
                THEN PollResult([this EXCEPT !.has_errored = TRUE],
                        ErrItem(SizeOverflow), TRUE)
                ELSE IF checked_add(this.bytes_read, inner.len)[1] > this.max_size
                THEN PollResult([this EXCEPT !.has_errored = TRUE,
                                             !.bytes_read = checked_add(this.bytes_read,
                                                                        inner.len)[1]],
                        ErrItem(BodyTooLarge(this.max_size,
                                    checked_add(this.bytes_read, inner.len)[1])),
                        TRUE)
                ELSE PollResult([this EXCEPT !.bytes_read =
                                    checked_add(this.bytes_read, inner.len)[1]],
                        inner, TRUE)
           [] inner.kind = "err" ->
                PollResult([this EXCEPT !.has_errored = TRUE], ErrItem(inner.err), TRUE)

\* SizeLimitedStream::poll_next forwarding a chunk without counting it
SizeLimitedStream_poll_next_uncounted(this, inner) ==
    IF this.has_errored THEN PollResult(this, EosItem, FALSE)
    ELSE CASE inner.kind = "pending" -> PollResult(this, PendingItem, TRUE)
           [] inner.kind = "eos" -> PollResult(this, EosItem, TRUE)
           [] inner.kind = "chunk" ->
                IF inner.len > MAX_INDIVIDUAL_CHUNK_SIZE
                THEN PollResult([this EXCEPT !.has_errored = TRUE],
                        ErrItem(ChunkTooLarge(MAX_INDIVIDUAL_CHUNK_SIZE, inner.len)),
                        TRUE)
                ELSE IF checked_add(this.bytes_read, inner.len) = None
                THEN PollResult([this EXCEPT !.has_errored = TRUE],
                        ErrItem(SizeOverflow), TRUE)
                ELSE IF checked_add(this.bytes_read, inner.len)[1] > this.max_size
                THEN PollResult([this EXCEPT !.has_errored = TRUE],
                        ErrItem(BodyTooLarge(this.max_size,
                                    checked_add(this.bytes_read, inner.len)[1])),
                        TRUE)
                ELSE PollResult(this, inner, TRUE)
           [] inner.kind = "err" ->
                PollResult([this EXCEPT !.has_errored = TRUE], ErrItem(inner.err), TRUE)

\* SizeLimitedStream::poll_next answering an error of the producer with a
\* size error
SizeLimitedStream_poll_next_masks_error(this, inner) ==
    IF this.has_errored THEN PollResult(this, EosItem, FALSE)
    ELSE CASE inner.kind = "pending" -> PollResult(this, PendingItem, TRUE)
           [] inner.kind = "eos" -> PollResult(this, EosItem, TRUE)
           [] inner.kind = "chunk" ->
                IF inner.len > MAX_INDIVIDUAL_CHUNK_SIZE
                THEN PollResult([this EXCEPT !.has_errored = TRUE],
                        ErrItem(ChunkTooLarge(MAX_INDIVIDUAL_CHUNK_SIZE, inner.len)),
                        TRUE)
                ELSE IF checked_add(this.bytes_read, inner.len) = None
                THEN PollResult([this EXCEPT !.has_errored = TRUE],
                        ErrItem(SizeOverflow), TRUE)
                ELSE IF checked_add(this.bytes_read, inner.len)[1] > this.max_size
                THEN PollResult([this EXCEPT !.has_errored = TRUE],
                        ErrItem(BodyTooLarge(this.max_size,
                                    checked_add(this.bytes_read, inner.len)[1])),
                        TRUE)
                ELSE PollResult([this EXCEPT !.bytes_read =
                                    checked_add(this.bytes_read, inner.len)[1]],
                        inner, TRUE)
           [] inner.kind = "err" ->
                PollResult([this EXCEPT !.has_errored = TRUE], ErrItem(SizeOverflow), TRUE)

\* SizeLimitedStream::poll_next reporting the size of the offending chunk
\* as actual_size
SizeLimitedStream_poll_next_chunk_size(this, inner) ==
    IF this.has_errored THEN PollResult(this, EosItem, FALSE)
    ELSE CASE inner.kind = "pending" -> PollResult(this, PendingItem, TRUE)
           [] inner.kind = "eos" -> PollResult(this, EosItem, TRUE)
           [] inner.kind = "chunk" ->
                IF inner.len > MAX_INDIVIDUAL_CHUNK_SIZE
                THEN PollResult([this EXCEPT !.has_errored = TRUE],
                        ErrItem(ChunkTooLarge(MAX_INDIVIDUAL_CHUNK_SIZE, inner.len)),
                        TRUE)
                ELSE IF checked_add(this.bytes_read, inner.len) = None
                THEN PollResult([this EXCEPT !.has_errored = TRUE],
                        ErrItem(SizeOverflow), TRUE)
                ELSE IF checked_add(this.bytes_read, inner.len)[1] > this.max_size
                THEN PollResult([this EXCEPT !.has_errored = TRUE],
                        ErrItem(BodyTooLarge(this.max_size, inner.len)), TRUE)
                ELSE PollResult([this EXCEPT !.bytes_read =
                                    checked_add(this.bytes_read, inner.len)[1]],
                        inner, TRUE)
           [] inner.kind = "err" ->
                PollResult([this EXCEPT !.has_errored = TRUE], ErrItem(inner.err), TRUE)

\* SizeLimitedStream::poll_next with `>=` for `>` in the cumulative check
SizeLimitedStream_poll_next_ge(this, inner) ==
    IF this.has_errored THEN PollResult(this, EosItem, FALSE)
    ELSE CASE inner.kind = "pending" -> PollResult(this, PendingItem, TRUE)
           [] inner.kind = "eos" -> PollResult(this, EosItem, TRUE)
           [] inner.kind = "chunk" ->
                IF inner.len > MAX_INDIVIDUAL_CHUNK_SIZE
                THEN PollResult([this EXCEPT !.has_errored = TRUE],
                        ErrItem(ChunkTooLarge(MAX_INDIVIDUAL_CHUNK_SIZE, inner.len)),
                        TRUE)
                ELSE IF checked_add(this.bytes_read, inner.len) = None
                THEN PollResult([this EXCEPT !.has_errored = TRUE],
                        ErrItem(SizeOverflow), TRUE)
                ELSE IF checked_add(this.bytes_read, inner.len)[1] >= this.max_size
                THEN PollResult([this EXCEPT !.has_errored = TRUE],
                        ErrItem(BodyTooLarge(this.max_size,
                                    checked_add(this.bytes_read, inner.len)[1])),
                        TRUE)
                ELSE PollResult([this EXCEPT !.bytes_read =
                                    checked_add(this.bytes_read, inner.len)[1]],
                        inner, TRUE)
           [] inner.kind = "err" ->
                PollResult([this EXCEPT !.has_errored = TRUE], ErrItem(inner.err), TRUE)

\* SizeLimitedStream::poll_next; `inner` is what this.inner.poll_next returns
\* if it is polled
SizeLimitedStream_poll_next(this, inner) ==
    IF this.has_errored THEN PollResult(this, EosItem, FALSE)
    ELSE CASE inner.kind = "pending" -> PollResult(this, PendingItem, TRUE)
           [] inner.kind = "eos" -> PollResult(this, EosItem, TRUE)
           [] inner.kind = "chunk" ->
                IF inner.len > MAX_INDIVIDUAL_CHUNK_SIZE
                THEN PollResult([this EXCEPT !.has_errored = TRUE],
                        ErrItem(ChunkTooLarge(MAX_INDIVIDUAL_CHUNK_SIZE, inner.len)),
                        TRUE)
                ELSE IF checked_add(this.bytes_read, inner.len) = None
                THEN PollResult([this EXCEPT !.has_errored = TRUE],
                        ErrItem(SizeOverflow), TRUE)
                ELSE IF checked_add(this.bytes_read, inner.len)[1] > this.max_size
                THEN PollResult([this EXCEPT !.has_errored = TRUE],
                        ErrItem(BodyTooLarge(this.max_size,
                                    checked_add(this.bytes_read, inner.len)[1])),
                        TRUE)
                ELSE PollResult([this EXCEPT !.bytes_read =
                                    checked_add(this.bytes_read, inner.len)[1]],
                        inner, TRUE)
           [] inner.kind = "err" ->
                PollResult([this EXCEPT !.has_errored = TRUE], ErrItem(inner.err), TRUE)

\* SizeCheckingBody::poll_next forwarding a chunk without counting it
SizeCheckingBody_poll_next_uncounted(this, inner) ==
    IF this.has_errored THEN PollResult(this, EosItem, FALSE)
    ELSE CASE inner.kind = "pending" -> PollResult(this, PendingItem, TRUE)
           [] inner.kind = "eos" -> PollResult(this, EosItem, TRUE)
           [] inner.kind = "chunk" ->
                IF inner.len > MAX_INDIVIDUAL_CHUNK_SIZE
                THEN PollResult([this EXCEPT !.has_errored = TRUE],
                        ErrItem(ChunkTooLarge(MAX_INDIVIDUAL_CHUNK_SIZE, inner.len)),
                        TRUE)
                ELSE IF checked_add(this.bytes_read, inner.len) = None
                THEN PollResult([this EXCEPT !.has_errored = TRUE],
                        ErrItem(SizeOverflow), TRUE)
                ELSE IF checked_add(this.bytes_read, inner.len)[1] > this.max_size
                THEN PollResult([this EXCEPT !.has_errored = TRUE],
                        ErrItem(BodyTooLarge(this.max_size,
                                    checked_add(this.bytes_read, inner.len)[1])),
                        TRUE)
                ELSE PollResult(this, inner, TRUE)
           [] inner.kind = "err" ->
                PollResult([this EXCEPT !.has_errored = TRUE], ErrItem(inner.err), TRUE)

\* SizeCheckingBody::poll_next without the has_errored test at its head
SizeCheckingBody_poll_next_no_latch(this, inner) ==
    CASE inner.kind = "pending" -> PollResult(this, PendingItem, TRUE)
      [] inner.kind = "eos" -> PollResult(this, EosItem, TRUE)
      [] inner.kind = "chunk" ->
           IF inner.len > MAX_INDIVIDUAL_CHUNK_SIZE
           THEN PollResult([this EXCEPT !.has_errored = TRUE],
                   ErrItem(ChunkTooLarge(MAX_INDIVIDUAL_CHUNK_SIZE, inner.len)),
                   TRUE)
           ELSE IF checked_add(this.bytes_read, inner.len) = None
           THEN PollResult([this EXCEPT !.has_errored = TRUE],
                   ErrItem(SizeOverflow), TRUE)
           ELSE IF checked_add(this.bytes_read, inner.len)[1] > this.max_size
           THEN PollResult([this EXCEPT !.has_errored = TRUE],
                   ErrItem(BodyTooLarge(this.max_size,
                               checked_add(this.bytes_read, inner.len)[1])),
                   TRUE)
           ELSE PollResult([this EXCEPT !.bytes_read =
                               checked_add(this.bytes_read, inner.len)[1]],
                   inner, TRUE)
      [] inner.kind = "err" ->
           PollResult([this EXCEPT !.has_errored = TRUE], ErrItem(inner.err), TRUE)

\* SizeCheckingBody::poll_next; `inner` is what this.inner.poll_frame returns
\* if it is polled.  The inner body is Body::from_stream(SizeLimitedStream),
\* whose frames are all data frames (frame.into_data() never fails).
SizeCheckingBody_poll_next(this, inner) ==
    IF this.has_errored THEN PollResult(this, EosItem, FALSE)
    ELSE CASE inner.kind = "pending" -> PollResult(this, PendingItem, TRUE)
           [] inner.kind = "eos" -> PollResult(this, EosItem, TRUE)
           [] inner.kind = "chunk" ->
                IF inner.len > MAX_INDIVIDUAL_CHUNK_SIZE
                THEN PollResult([this EXCEPT !.has_errored = TRUE],
                        ErrItem(ChunkTooLarge(MAX_INDIVIDUAL_CHUNK_SIZE, inner.len)),
                        TRUE)
                ELSE IF checked_add(this.bytes_read, inner.len) = None
                THEN PollResult([this EXCEPT !.has_errored = TRUE],
                        ErrItem(SizeOverflow), TRUE)
                ELSE IF checked_add(this.bytes_read, inner.len)[1] > this.max_size
                THEN PollResult([this EXCEPT !.has_errored = TRUE],
                        ErrItem(BodyTooLarge(this.max_size,
                                    checked_add(this.bytes_read, inner.len)[1])),
                        TRUE)
                ELSE PollResult([this EXCEPT !.bytes_read =
                                    checked_add(this.bytes_read, inner.len)[1]],
                        inner, TRUE)
           [] inner.kind = "err" ->
                PollResult([this EXCEPT !.has_errored = TRUE], ErrItem(inner.err), TRUE)

\* one poll of the body with a ChainedStream that keeps its first chunk
\* instead of taking it
final_body_poll_keeps_first(first, checking, limited, body, pos, ready) ==
    IF first # None
    THEN [first |-> first, scb |-> checking, sls |-> limited, pos |-> pos,
          out |-> first[1], inner_polled |-> FALSE, producer_polled |-> FALSE]
    ELSE LET produced == data_stream_poll(body, pos, ready)
             l == SizeLimitedStream_poll_next(limited, produced)
             c == SizeCheckingBody_poll_next(checking, l.out)
             polled == c.polled_inner /\ l.polled_inner
         IN  [first |-> None,
              scb |-> c.this,
              sls |-> IF c.polled_inner THEN l.this ELSE limited,
              pos |-> IF polled /\ produced.kind \in {"chunk", "err"}
                      THEN pos + 1 ELSE pos,
              out |-> c.out,
              inner_polled |-> c.polled_inner,
              producer_polled |-> polled]

\* one poll of the body handed to the inner service: ChainedStream::poll_next
\* over SizeCheckingBody over Body::from_stream(SizeLimitedStream) over the
\* request's data stream.  `ready` tells whether the producer has an item.
final_body_poll(first, checking, limited, body, pos, ready) ==
    IF first # None
    THEN [first |-> None, scb |-> checking, sls |-> limited, pos |-> pos,
          out |-> first[1], inner_polled |-> FALSE, producer_polled |-> FALSE]
    ELSE LET produced == data_stream_poll(body, pos, ready)
             l == SizeLimitedStream_poll_next(limited, produced)
             c == SizeCheckingBody_poll_next(checking, l.out)
             polled == c.polled_inner /\ l.polled_inner
         IN  [first |-> None,
              scb |-> c.this,
              sls |-> IF c.polled_inner THEN l.this ELSE limited,
              pos |-> IF polled /\ produced.kind \in {"chunk", "err"}
                      THEN pos + 1 ELSE pos,
              out |-> c.out,
              inner_polled |-> c.polled_inner,
              producer_polled |-> polled]

\* SizeLimitService::poll_ready, of what self.inner.poll_ready(cx) returns
poll_ready(inner_ready) ==
    CASE inner_ready = "Ready(Ok)" -> "Ready(Ok)"
      [] inner_ready = "Ready(Err)" -> "Pending"
      [] inner_ready = "Pending" -> "Pending"

InnerReadiness == {"Ready(Ok)", "Ready(Err)", "Pending"}

\* the builds of the crate: with overflow checks (debug) and without (release)
Builds == {"debug", "release"}

\* call panics on what the inner service returned: the argument of
\* unwrap_or(max_size + 1) is evaluated, whether or not a size was extracted,
\* as soon as the error text has one of the two phrases, and in a build with
\* overflow checks the addition panics when max_size is usize::MAX
call_panics(limit, ret, build) ==
    /\ ~ret.ok
    /\ ret.text.has_body_too_large \/ ret.text.has_maximum_size_is
    /\ limit + 1 > USIZE_MAX
    /\ build = "debug"

\* the response call makes of what the inner service returned
response_of_inner(format, limit, ret) ==
    IF ret.ok THEN Response(ret.status, "handler", NoError)
    ELSE IF ret.text.has_body_too_large \/ ret.text.has_maximum_size_is
    THEN handle_error(format,
            BodyTooLarge(limit,
                IF extract_actual_size_from_error(ret.text) # None
                THEN extract_actual_size_from_error(ret.text)[1]
                ELSE (limit + 1) % (USIZE_MAX + 1)))
    ELSE Response(500, "inner_error", NoError)

\* the configurations the service is exercised with
ServiceConfigs == {
    [default_limit |-> 3, specific_limits |-> <<>>, wildcard_limits |-> <<>>,
     error_format |-> SimpleJson],
    [default_limit |-> 3, specific_limits |-> [k \in {OCTET_STREAM} |-> 1],
     wildcard_limits |-> <<>>, error_format |-> JsonApi],
    [default_limit |-> 3, specific_limits |-> <<>>,
     wildcard_limits |-> [k \in {APPLICATION_ANY} |-> 2], error_format |-> PlainText],
    [default_limit |-> 1, specific_limits |-> [k \in {<<"a", "/", "a">>} |-> USIZE_MAX],
     wildcard_limits |-> <<>>, error_format |-> SimpleJson],
    [default_limit |-> 0, specific_limits |-> <<>>,
     wildcard_limits |-> [k \in {<<"a", "/", "*">>} |-> 3], error_format |-> Custom(418)],
    [default_limit |-> MAX_INDIVIDUAL_CHUNK_SIZE + 1, specific_limits |-> <<>>,
     wildcard_limits |-> <<>>, error_format |-> JsonApi]}

ContentTypeHeaders == {None, Some(<<"A", "/", "a", ";">>), Some(<<"a", "/", OpaqueByte>>)}
ContentLengthHeaders == {None, Some(<<"9">>)}

Requests ==
    [content_type : ContentTypeHeaders, content_length : ContentLengthHeaders,
     body : Bodies]

\* the statuses and errors an inner service returns
HandlerStatuses == {200}
OwnErrorText == ErrorText(FALSE, FALSE, None)

\* the texts of the errors an inner service may return of its own: any
\* message, with or without the phrases call looks for
OwnErrorTexts ==
    {ErrorText(btl, msi, got) : btl \in BOOLEAN, msi \in BOOLEAN, got \in {None, Some(2)}}

\* the handler polls its body at most this often
MaxPolls == MaxItems + 2

ServiceInit ==
    /\ pc = "svc_start"
    /\ config \in ServiceConfigs
    /\ strategy = BufferStrategy_new
    /\ ct_arg = <<>>
    /\ out = None
    /\ base_out = None
    /\ error_arg = None
    /\ pipelines = <<>>
    /\ builder_arg = None
    /\ readiness = None
    /\ req \in Requests
    /\ prod_pos = 0
    /\ max_size = 0
    /\ first_chunk = None
    /\ total_read = 0
    /\ sls = EmptyStreamState
    /\ scb = EmptyStreamState
    /\ delivered = <<>>
    /\ last_poll = NoPoll
    /\ handler_calls = 0
    /\ handler_ret = None
    /\ response = None
    /\ NoMiddleware

cfgVars == <<config, strategy, ct_arg, out, base_out, error_arg, pipelines,
            builder_arg, readiness, req>>

\* the caller polls the service for readiness; the inner service answers as
\* it likes
SvcPollReady == \E inner_ready \in InnerReadiness :
    /\ pc = "svc_start"
    /\ readiness' = Some([inner |-> inner_ready, result |-> poll_ready(inner_ready)])
    /\ UNCHANGED <<pc, config, strategy, ct_arg, out, base_out, error_arg, pipelines,
                   builder_arg, reqVars>>

\* call, up to the first await: the content type and its limit; a caller of
\* a tower::Service calls it once poll_ready has returned Ready(Ok(()))
SvcCall ==
    /\ pc = "svc_start"
    /\ readiness # None /\ readiness[1].result = "Ready(Ok)"
    /\ max_size' = get_limit_for_content_type(config, content_type_of(req))
    /\ pc' = "svc_peek"
    /\ UNCHANGED <<cfgVars, prod_pos, first_chunk, total_read, sls, scb, delivered,
                   last_poll, handler_calls, handler_ret, response, mwVars>>

\* call, from the first item of the data stream to the call of the inner
\* service (or to the rejection)
SvcPeek ==
    /\ pc = "svc_peek"
    /\ LET item == data_stream_poll(req.body, prod_pos, TRUE)
           peek == first_chunk_check(max_size, item)
       IN  /\ prod_pos' = IF item.kind = "eos" THEN prod_pos ELSE prod_pos + 1
           /\ total_read' = peek.total_read
           /\ CASE peek.outcome = "reject" ->
                    /\ response' = Some(handle_error(config.error_format, peek.error))
                    /\ pc' = "svc_done"
                    /\ UNCHANGED <<first_chunk, sls, scb, handler_calls>>
                [] peek.outcome = "stream_error" ->
                    /\ response' = Some(Response(400, "stream_error", peek.error))
                    /\ pc' = "svc_done"
                    /\ UNCHANGED <<first_chunk, sls, scb, handler_calls>>
                [] peek.outcome \in {"first", "empty"} ->
                    /\ first_chunk' = IF peek.outcome = "first" THEN Some(item) ELSE None
                    /\ sls' = new_stream_state(max_size, peek.total_read)
                    /\ scb' = new_stream_state(max_size, peek.total_read)
                    /\ handler_calls' = handler_calls + 1
                    /\ pc' = "svc_handler"
                    /\ UNCHANGED response
    /\ UNCHANGED <<cfgVars, max_size, delivered, last_poll, handler_ret, mwVars>>

\* the inner service polls the body of its request
HandlerPoll(ready) ==
    /\ pc = "svc_handler"
    /\ Len(delivered) < MaxPolls
    /\ LET r == final_body_poll(first_chunk, scb, sls, req.body, prod_pos, ready)
       IN  /\ first_chunk' = r.first
           /\ scb' = r.scb
           /\ sls' = r.sls
           /\ prod_pos' = r.pos
           /\ delivered' = IF r.out.kind = "pending" THEN delivered
                           ELSE Append(delivered, r.out)
           /\ last_poll' = [result |-> r.out.kind, inner_polled |-> r.inner_polled,
                            producer_polled |-> r.producer_polled]
    /\ UNCHANGED <<pc, cfgVars, max_size, total_read, handler_calls, handler_ret,
                   response, mwVars>>

HandlerPollReady == HandlerPoll(TRUE)
HandlerPollPending == HandlerPoll(FALSE)

\* the inner service returns; call turns that into the response
InnerReturns(ret) ==
    /\ handler_ret' = Some(ret)
    /\ \E build \in Builds :
          IF call_panics(max_size, ret, build)
          THEN /\ pc' = "svc_panicked"
               /\ UNCHANGED response
          ELSE /\ response' = Some(response_of_inner(config.error_format, max_size, ret))
               /\ pc' = "svc_done"
    /\ UNCHANGED <<cfgVars, prod_pos, max_size, first_chunk, total_read, sls, scb,
                   delivered, last_poll, handler_calls, mwVars>>

\* ... a response
HandlerReturnsOk == \E status \in HandlerStatuses :
    /\ pc \in {"svc_handler", "svc_body_dropped"}
    /\ InnerReturns([ok |-> TRUE, status |-> status, text |-> OwnErrorText,
                     own |-> TRUE])

\* ... an error of its own
HandlerFails == \E message \in OwnErrorTexts :
    /\ pc \in {"svc_handler", "svc_body_dropped"}
    /\ InnerReturns([ok |-> FALSE, status |-> 0, text |-> message, own |-> TRUE])

\* ... the error its body gave it
HandlerPropagates == \E i \in 1..Len(delivered) :
    /\ pc \in {"svc_handler", "svc_body_dropped"}
    /\ delivered[i].kind = "err"
    /\ InnerReturns([ok |-> FALSE, status |-> 0, text |-> to_string(delivered[i].err),
                     own |-> FALSE])

\* the inner service drops the body of its request: ChainedStream (with the
\* first chunk, if it still holds it), SizeCheckingBody, SizeLimitedStream
\* and the data stream are dropped, outermost first; only SizeCheckingBody
\* has a drop of its own
HandlerDropsBody ==
    /\ pc = "svc_handler"
    /\ scb' = SizeCheckingBody_drop(scb)
    /\ pc' = "svc_body_dropped"
    /\ UNCHANGED <<cfgVars, prod_pos, max_size, first_chunk, total_read, sls,
                   delivered, last_poll, handler_calls, handler_ret, response, mwVars>>

ServiceNext ==
    \/ SvcPollReady
    \/ SvcCall
    \/ SvcPeek
    \/ HandlerPollReady
    \/ HandlerPollPending
    \/ HandlerDropsBody
    \/ HandlerReturnsOk
    \/ HandlerFails
    \/ HandlerPropagates

SpecService == ServiceInit /\ [][ServiceNext]_vars

----------------------------------------------------------------------------
(* with_size_limit, buffer_with_limit, stream_with_limit (middleware.rs) *)

CHANNEL_CAPACITY == 32

\* the early rejection taking a Content-Length that does not parse for one
\* above the limit
early_reject_unparsable(request, limit) ==
    \/ request.content_length # None /\ declared_length(request) = None
    \/ declared_length(request) # None /\ declared_length(request)[1] > limit
\* the early rejection of a declared length that is the limit or more
early_reject_at_limit(request, limit) ==
    declared_length(request) # None /\ declared_length(request)[1] >= limit

\* the early rejection with the comparison one above the limit
early_reject_off_by_one(request, limit) ==
    declared_length(request) # None /\ declared_length(request)[1] > limit + 1
\* the early rejection of with_size_limit: the Content-Length header is
\* present, is text, parses as usize and is above the limit
early_reject(request, limit) ==
    declared_length(request) # None /\ declared_length(request)[1] > limit

\* to_bytes failing on the frame that exactly fills the limit
to_bytes_step_ge(limit, len, item) ==
    CASE item.kind = "chunk" -> IF item.len >= limit - len THEN "error" ELSE "more"
      [] item.kind = "err" -> "error"
      [] item.kind = "eos" -> "done"

\* what axum::body::to_bytes(body, limit) does with the next item of the
\* body, `len` bytes being collected: http_body_util::Limited fails on the
\* frame that does not fit in what remains of the limit
to_bytes_step(limit, len, item) ==
    CASE item.kind = "chunk" -> IF item.len > limit - len THEN "error" ELSE "more"
      [] item.kind = "err" -> "error"
      [] item.kind = "eos" -> "done"

\* Body::from(bytes): one data frame holding the collected chunks, none when
\* there are no bytes
body_from(chunks) ==
    IF SumLenOf(chunks) = 0 THEN <<>>
    ELSE <<ChunkItem(chunks[1].id, SumLenOf(chunks))>>

\* total_size += chunk.len(): wraps in a release build (a debug build panics)
wrapping_add(a, b) == (a + b) % (USIZE_MAX + 1)

\* the configurations and strategies the middleware is exercised with
MwSetups == {
    [config |-> [default_limit |-> 3, specific_limits |-> <<>>,
                 wildcard_limits |-> <<>>, error_format |-> SimpleJson],
     strategy |-> BufferStrategy_new],
    [config |-> [default_limit |-> 3, specific_limits |-> [k \in {OCTET_STREAM} |-> 1],
                 wildcard_limits |-> <<>>, error_format |-> SimpleJson],
     strategy |-> [buffered_types |-> <<<<"a", "/", "a">>>>, streamed_types |-> <<>>,
                   default_is_buffered |-> FALSE]],
    [config |-> [default_limit |-> 3, specific_limits |-> <<>>,
                 wildcard_limits |-> [k \in {APPLICATION_ANY} |-> 2],
                 error_format |-> SimpleJson],
     strategy |-> [buffered_types |-> <<>>, streamed_types |-> <<<<"a", "/", "*">>>>,
                   default_is_buffered |-> TRUE]],
    [config |-> [default_limit |-> 1,
                 specific_limits |-> [k \in {<<"a", "/", "a">>} |-> USIZE_MAX],
                 wildcard_limits |-> <<>>, error_format |-> SimpleJson],
     strategy |-> [buffered_types |-> <<>>, streamed_types |-> <<>>,
                   default_is_buffered |-> FALSE]],
    [config |-> [default_limit |-> CHANNEL_CAPACITY + 1, specific_limits |-> <<>>,
                 wildcard_limits |-> <<>>, error_format |-> SimpleJson],
     strategy |-> [buffered_types |-> <<<<"a", "/", "a">>>>, streamed_types |-> <<>>,
                   default_is_buffered |-> FALSE]]}

MwContentLengthHeaders == {None, Some(<<"9">>), Some(<<"2">>), Some(<<"x">>)}

\* bodies of one-byte chunks, one chunk and two chunks more than the channel
\* of stream_with_limit holds
LongBodies ==
    {[i \in 1..n |-> ChunkItem(i, 1)] : n \in {CHANNEL_CAPACITY + 1, CHANNEL_CAPACITY + 2}}

\* the middleware has no chunk ceiling: one large length is enough
MwBodies ==
    {b \in Bodies : \A i \in 1..Len(b) : b[i].len <= MAX_INDIVIDUAL_CHUNK_SIZE}
        \cup LongBodies

MwRequests ==
    [content_type : ContentTypeHeaders, content_length : MwContentLengthHeaders,
     body : MwBodies]

MwInit ==
    /\ pc = "mw_start"
    /\ \E setup \in MwSetups : config = setup.config /\ strategy = setup.strategy
    /\ ct_arg = <<>>
    /\ out = None
    /\ base_out = None
    /\ error_arg = None
    /\ pipelines = <<>>
    /\ builder_arg = None
    /\ readiness = None
    /\ req \in MwRequests
    /\ prod_pos = 0
    /\ max_size = 0
    /\ first_chunk = None
    /\ total_read = 0
    /\ sls = EmptyStreamState
    /\ scb = EmptyStreamState
    /\ delivered = <<>>
    /\ last_poll = NoPoll
    /\ handler_calls = 0
    /\ handler_ret = None
    /\ response = None
    /\ NoMiddleware

svcVars == <<first_chunk, total_read, sls, scb, last_poll>>

\* the middleware closure: content type, limit, early rejection, and the
\* choice of buffer_with_limit or stream_with_limit (which spawns its task)
MwCall ==
    /\ pc = "mw_start"
    /\ LET content_type == content_type_of(req)
           limit == get_limit_for_content_type(config, content_type)
       IN  /\ max_size' = limit
           /\ IF early_reject(req, limit)
              THEN /\ response' = Some(Response(413, "early_reject", NoError))
                   /\ pc' = "mw_done"
                   /\ UNCHANGED task
              ELSE IF should_buffer(strategy, content_type)
              THEN /\ pc' = "mw_buffer"
                   /\ UNCHANGED <<response, task>>
              ELSE /\ pc' = "mw_wait"
                   /\ task' = [task EXCEPT !.pc = "next"]
                   /\ UNCHANGED response
    /\ UNCHANGED <<cfgVars, svcVars, prod_pos, delivered, handler_calls, handler_ret,
                   collected, chan, limit_exceeded, handler_signal, rx_dropped>>

\* buffer_with_limit: to_bytes takes the next item of the body; at the end
\* of the body the request, with the collected bytes as its body, goes to next
BufferRead ==
    /\ pc = "mw_buffer"
    /\ LET item == data_stream_poll(req.body, prod_pos, TRUE)
           step == to_bytes_step(max_size, SumLenOf(collected), item)
       IN  /\ prod_pos' = IF item.kind = "eos" THEN prod_pos ELSE prod_pos + 1
           /\ CASE step = "more" ->
                    /\ collected' = Append(collected, item)
                    /\ UNCHANGED <<pc, response, chan, handler_calls>>
                [] step = "error" ->
                    /\ response' = Some(Response(413, "buffer_error", item.err))
                    /\ pc' = "mw_done"
                    /\ UNCHANGED <<collected, chan, handler_calls>>
                [] step = "done" ->
                    IF SumLenOf(collected) > max_size
                    THEN /\ response' = Some(Response(413, "buffer_recheck", NoError))
                         /\ pc' = "mw_done"
                         /\ UNCHANGED <<collected, chan, handler_calls>>
                    ELSE /\ chan' = body_from(collected)
                         /\ handler_calls' = handler_calls + 1
                         /\ pc' = "mw_handler_buffered"
                         /\ UNCHANGED <<collected, response>>
    /\ UNCHANGED <<cfgVars, svcVars, max_size, delivered, handler_ret, task,
                   limit_exceeded, handler_signal, rx_dropped>>

taskFrame == <<pc, cfgVars, svcVars, max_size, delivered, handler_calls, handler_ret,
               response, collected, rx_dropped>>

\* the task ends and tells stream_with_limit to run next whatever happened
TaskEnds_always_calls(should_call_handler) ==
    /\ task' = [task EXCEPT !.pc = "done"]
    /\ handler_signal' = [state |-> "value", value |-> TRUE]

\* the task ends: handler_tx.send(should_call_handler), tx is dropped
TaskEnds(should_call_handler) ==
    /\ task' = [task EXCEPT !.pc = "done"]
    /\ handler_signal' = [state |-> "value", value |-> should_call_handler]

\* the forwarding task: stream.next() yields, up to the next await
TaskNext(build) ==
    /\ task.pc = "next"
    /\ LET item == data_stream_poll(req.body, prod_pos, TRUE)
       IN  /\ prod_pos' = IF item.kind = "eos" THEN prod_pos ELSE prod_pos + 1
           /\ CASE item.kind = "chunk" ->
                    IF task.total_size + item.len > USIZE_MAX /\ build = "debug"
                    THEN \* the addition panics: the task dies, handler_tx is dropped
                         /\ task' = [task EXCEPT !.pc = "panicked"]
                         /\ handler_signal' = [state |-> "closed", value |-> FALSE]
                         /\ UNCHANGED limit_exceeded
                    ELSE IF wrapping_add(task.total_size, item.len) > max_size
                    THEN /\ limit_exceeded' = TRUE
                         /\ task' = [task EXCEPT !.pc = "done",
                                        !.total_size = wrapping_add(@, item.len)]
                         /\ handler_signal' = [state |-> "value", value |-> FALSE]
                    ELSE /\ task' = [task EXCEPT !.pc = "send", !.item = item,
                                        !.total_size = wrapping_add(@, item.len)]
                         /\ UNCHANGED <<limit_exceeded, handler_signal>>
                [] item.kind = "err" ->
                    /\ task' = [task EXCEPT !.pc = "send_err", !.item = item]
                    /\ UNCHANGED <<limit_exceeded, handler_signal>>
                [] item.kind = "eos" ->
                    /\ TaskEnds(TRUE)
                    /\ UNCHANGED limit_exceeded
    /\ UNCHANGED <<taskFrame, chan>>

TaskNextRelease == TaskNext("release")
TaskNextDebug == TaskNext("debug")

\* the send of a task that does not notice that the receiver is gone
TaskSend_ignores_drop ==
    /\ task.pc = "send"
    /\ Len(chan) < CHANNEL_CAPACITY \/ rx_dropped
    /\ chan' = IF rx_dropped THEN chan ELSE Append(chan, task.item)
    /\ task' = [task EXCEPT !.pc = "next"]
    /\ UNCHANGED handler_signal
    /\ UNCHANGED <<taskFrame, prod_pos, limit_exceeded>>

\* the forwarding task: tx.send(Ok(chunk)).await completes, when the channel
\* has room or the receiver is gone
TaskSend ==
    /\ task.pc = "send"
    /\ Len(chan) < CHANNEL_CAPACITY \/ rx_dropped
    /\ IF rx_dropped
       THEN /\ TaskEnds(FALSE)
            /\ UNCHANGED chan
       ELSE /\ chan' = Append(chan, task.item)
            /\ task' = [task EXCEPT !.pc = "next"]
            /\ UNCHANGED handler_signal
    /\ UNCHANGED <<taskFrame, prod_pos, limit_exceeded>>

\* the forwarding task: tx.send(Err(e)).await completes, and the loop ends
TaskSendErr ==
    /\ task.pc = "send_err"
    /\ Len(chan) < CHANNEL_CAPACITY \/ rx_dropped
    /\ chan' = IF rx_dropped THEN chan ELSE Append(chan, task.item)
    /\ TaskEnds(FALSE)
    /\ UNCHANGED <<taskFrame, prod_pos, limit_exceeded>>

\* stream_with_limit: handler_rx.await completes
MwSignalled ==
    /\ pc = "mw_wait"
    /\ handler_signal.state # "empty"
    /\ IF handler_signal.state = "closed"
       THEN /\ response' = Some(Response(500, "task_dropped", NoError))
            /\ pc' = "mw_done"
            /\ UNCHANGED handler_calls
       ELSE IF ~handler_signal.value
       THEN /\ response' = Some(Response(413, "stream_limit", NoError))
            /\ pc' = "mw_done"
            /\ UNCHANGED handler_calls
       ELSE /\ handler_calls' = handler_calls + 1
            /\ pc' = "mw_handler_streamed"
            /\ UNCHANGED response
    /\ UNCHANGED <<cfgVars, svcVars, prod_pos, max_size, delivered, handler_ret, mwVars>>

\* the client goes away while stream_with_limit waits for its task: the
\* request future is dropped, and rx and handler_rx with it
MwCancelled ==
    /\ pc = "mw_wait"
    /\ pc' = "mw_cancelled"
    /\ rx_dropped' = TRUE
    /\ UNCHANGED <<cfgVars, svcVars, prod_pos, max_size, delivered, handler_calls,
                   handler_ret, response, collected, task, chan, limit_exceeded,
                   handler_signal>>

\* next polls the body of its request: the frame of Body::from(bytes), or
\* ReceiverStream::poll_next on a channel whose sender is gone
MwHandlerPoll ==
    /\ pc \in {"mw_handler_buffered", "mw_handler_streamed"}
    /\ Len(delivered) < MaxPolls
    /\ IF chan # <<>>
       THEN /\ delivered' = Append(delivered, Head(chan))
            /\ chan' = Tail(chan)
       ELSE /\ delivered' = Append(delivered, EosItem)
            /\ UNCHANGED chan
    /\ UNCHANGED <<pc, cfgVars, svcVars, prod_pos, max_size, handler_calls, handler_ret,
                   response, collected, task, limit_exceeded, handler_signal,
                   rx_dropped>>

\* next.run(req) returns its response; stream_with_limit looks at the flag
MwHandlerReturns == \E status \in HandlerStatuses :
    /\ pc \in {"mw_handler_buffered", "mw_handler_streamed"}
    /\ handler_ret' = Some([ok |-> TRUE, status |-> status, text |-> OwnErrorText,
                            own |-> TRUE])
    /\ response' = IF pc = "mw_handler_streamed" /\ limit_exceeded
                   THEN Some(Response(413, "limit_flag", NoError))
                   ELSE Some(Response(status, "handler", NoError))
    /\ pc' = "mw_done"
    /\ UNCHANGED <<cfgVars, svcVars, prod_pos, max_size, delivered, handler_calls,
                   mwVars>>

MwNext ==
    \/ MwCall
    \/ BufferRead
    \/ TaskNextRelease
    \/ TaskNextDebug
    \/ TaskSend
    \/ TaskSendErr
    \/ MwSignalled
    \/ MwCancelled
    \/ MwHandlerPoll
    \/ MwHandlerReturns

SpecMw == MwInit /\ [][MwNext]_vars

\* once a request is past the early rejection, the tokio runtime runs every
\* task that can make progress, and next returns; the client is free to stay
\* or to go away
MwProgress ==
    \/ BufferRead
    \/ TaskNextRelease
    \/ TaskNextDebug
    \/ TaskSend
    \/ TaskSendErr
    \/ MwSignalled
    \/ MwHandlerReturns

MwFairness == WF_vars(MwProgress)

SpecMwFair == SpecMw /\ MwFairness

\* requests through either entry point
SpecRequests == (ServiceInit \/ MwInit) /\ [][ServiceNext \/ MwNext]_vars

----------------------------------------------------------------------------
(* Calls of ErrorFormat::handle_error *)

\* the sizes an error carries
ErrorSizes == {0, 1, 2, 3, MAX_INDIVIDUAL_CHUNK_SIZE, MAX_INDIVIDUAL_CHUNK_SIZE + 1,
               USIZE_MAX}

\* the values of SizeLimitError (the message of Other plays no part in the
\* status)
SizeLimitErrors ==
    {BodyTooLarge(m, a) : m \in ErrorSizes, a \in ErrorSizes}
    \cup {ChunkTooLarge(m, a) : m \in ErrorSizes, a \in ErrorSizes}
    \cup {SizeOverflow, Other}

\* the built-in formats, and Custom functions answering with a fixed status
BuiltInFormats == {SimpleJson, JsonApi, PlainText}
ErrorFormats == BuiltInFormats \cup {Custom(200), Custom(418)}

ErrorInit ==
    /\ pc = "error_ready"
    /\ \E format \in ErrorFormats :
          config = [default_limit |-> 1, specific_limits |-> <<>>,
                    wildcard_limits |-> <<>>, error_format |-> format]
    /\ strategy = BufferStrategy_new
    /\ ct_arg = <<>>
    /\ out = None
    /\ base_out = None
    /\ error_arg \in {Some(e) : e \in SizeLimitErrors}
    /\ pipelines = <<>>
    /\ builder_arg = None
    /\ readiness = None
    /\ NoRequest

\* config.error_format.handle_error(error_arg)
HandleError ==
    /\ pc = "error_ready"
    /\ response' = Some(handle_error(config.error_format, error_arg[1]))
    /\ pc' = "error_done"
    /\ UNCHANGED <<cfgVars, prod_pos, max_size, first_chunk, total_read, sls, scb,
                   delivered, last_poll, handler_calls, handler_ret, mwVars>>

ErrorNext == HandleError

SpecError == ErrorInit /\ [][ErrorNext]_vars

----------------------------------------------------------------------------
(* Concurrent requests through one SizeLimitService *)

RequestIds == 1..Concurrent

\* the requests sent concurrently: no headers, short bodies of chunks of two
\* bytes and errors
PairRequests ==
    {r \in Requests :
        /\ r.content_length = None
        /\ r.content_type = None
        /\ Len(r.body) <= 2
        /\ \A i \in 1..Len(r.body) : r.body[i].kind = "chunk" => r.body[i].len = 2}

\* the configurations shared by the concurrent requests: such requests have
\* the limit 3 in the first and 1 in the second
PairConfigs == {c \in ServiceConfigs : c.default_limit = 3 /\ c.wildcard_limits = <<>>}

\* the future returned by call, before it is first polled: what it owns
new_pipeline(request) ==
    [pc |-> "svc_start", req |-> request, prod_pos |-> 0, max_size |-> 0,
     first_chunk |-> None, total_read |-> 0, sls |-> EmptyStreamState,
     scb |-> EmptyStreamState, delivered |-> <<>>, handler_calls |-> 0,
     handler_ret |-> None, response |-> None]

\* call, up to the first item of the data stream: the limit of the request
call_limit(cfg, p) ==
    [p EXCEPT !.max_size = get_limit_for_content_type(cfg, content_type_of(p.req)),
              !.pc = "svc_peek"]

\* call, from the first item of the data stream to the call of the inner
\* service (or to the rejection)
call_peek(cfg, p) ==
    LET item == data_stream_poll(p.req.body, p.prod_pos, TRUE)
        peek == first_chunk_check(p.max_size, item)
        q == [p EXCEPT !.prod_pos = IF item.kind = "eos" THEN @ ELSE @ + 1,
                       !.total_read = peek.total_read]
    IN  CASE peek.outcome = "reject" ->
               [q EXCEPT !.response = Some(handle_error(cfg.error_format, peek.error)),
                         !.pc = "svc_done"]
          [] peek.outcome = "stream_error" ->
               [q EXCEPT !.response = Some(Response(400, "stream_error", peek.error)),
                         !.pc = "svc_done"]
          [] peek.outcome \in {"first", "empty"} ->
               [q EXCEPT !.first_chunk = IF peek.outcome = "first" THEN Some(item)
                                         ELSE None,
                         !.sls = new_stream_state(p.max_size, peek.total_read),
                         !.scb = new_stream_state(p.max_size, peek.total_read),
                         !.handler_calls = @ + 1,
                         !.pc = "svc_handler"]

\* one poll by the inner service of the body of its request; `wrappers` is
\* the pipeline whose SizeLimitedStream and SizeCheckingBody that body holds
body_poll(p, wrappers) ==
    LET r == final_body_poll(p.first_chunk, wrappers.scb, wrappers.sls,
                             p.req.body, p.prod_pos, TRUE)
    IN  [p EXCEPT !.first_chunk = r.first, !.scb = r.scb, !.sls = r.sls,
                  !.prod_pos = r.pos, !.delivered = Append(@, r.out)]

\* the inner service returns
call_returns(cfg, p, ret) ==
    [p EXCEPT !.handler_ret = Some(ret),
              !.response = Some(response_of_inner(cfg.error_format, p.max_size, ret)),
              !.pc = "svc_done"]

\* the wrappers of every request are those of the first request, as if they
\* were fields of the service
wrappers_of_first(all, id) == all[1]

\* the wrappers the body of request `id` holds: those its own call created
wrappers_of(all, id) == all[id]

\* the inner service polls the body of a request at most this often
PairMaxPolls == 3

PairInit ==
    /\ pc = "pair"
    /\ config \in PairConfigs
    /\ strategy = BufferStrategy_new
    /\ ct_arg = <<>>
    /\ out = None
    /\ base_out = None
    /\ error_arg = None
    /\ pipelines \in [RequestIds -> {new_pipeline(r) : r \in PairRequests}]
    /\ builder_arg = None
    /\ readiness = None
    /\ NoRequest

pairFrame == <<pc, config, strategy, ct_arg, out, base_out, error_arg, builder_arg, readiness,
              reqVars>>

PairStep(id, next) ==
    /\ pipelines' = [pipelines EXCEPT ![id] = next]
    /\ UNCHANGED pairFrame

PairCall(id) ==
    /\ pc = "pair"
    /\ pipelines[id].pc = "svc_start"
    /\ PairStep(id, call_limit(config, pipelines[id]))

PairPeek(id) ==
    /\ pc = "pair"
    /\ pipelines[id].pc = "svc_peek"
    /\ PairStep(id, call_peek(config, pipelines[id]))

PairPoll(id) ==
    /\ pc = "pair"
    /\ pipelines[id].pc = "svc_handler"
    /\ Len(pipelines[id].delivered) < PairMaxPolls
    /\ PairStep(id, body_poll(pipelines[id], wrappers_of(pipelines, id)))

PairReturnsOk(id) == \E status \in HandlerStatuses :
    /\ pc = "pair"
    /\ pipelines[id].pc = "svc_handler"
    /\ PairStep(id, call_returns(config, pipelines[id],
            [ok |-> TRUE, status |-> status, text |-> OwnErrorText, own |-> TRUE]))

PairPropagates(id) == \E i \in 1..Len(pipelines[id].delivered) :
    /\ pc = "pair"
    /\ pipelines[id].pc = "svc_handler"
    /\ pipelines[id].delivered[i].kind = "err"
    /\ PairStep(id, call_returns(config, pipelines[id],
            [ok |-> FALSE, status |-> 0,
             text |-> to_string(pipelines[id].delivered[i].err), own |-> FALSE]))

PairNext == \E id \in RequestIds :
    \/ PairCall(id)
    \/ PairPeek(id)
    \/ PairPoll(id)
    \/ PairReturnsOk(id)
    \/ PairPropagates(id)

SpecPair == PairInit /\ [][PairNext]_vars

----------------------------------------------------------------------------
(* Calls of the builder methods of SizeLimitConfig *)

\* the types and patterns that are registered: in both letter cases, with a
\* parameter, with whitespace, with a second '/', and with an empty type
BuilderKeys ==
    {<<"a", "/", "a">>, <<"A", "/", "a">>, <<"a">>, <<"a", ";", "a">>, <<" ", "a">>,
     <<"a", "/", "*">>, <<"A", "/", "*">>, <<"/", "*">>, <<"a", "/", "a", "/", "*">>,
     <<"a", " ", "/", "*">>}

\* the limit that is registered: a value no other rule of the configurations has
BuilderLimit == 7

\* the configurations a rule is added to
BuilderBases ==
    {c \in LimitConfigs :
        /\ DOMAIN c.specific_limits \in {{}, {<<"a", "/", "a">>}}
        /\ DOMAIN c.wildcard_limits \in {{}, {<<"a", "/", "*">>}}}

BuilderInit ==
    /\ pc = "builder_ready"
    /\ config \in BuilderBases
    /\ strategy = BufferStrategy_new
    /\ ct_arg \in CtStrings
    /\ out = None
    /\ base_out = None
    /\ error_arg = None
    /\ pipelines = <<>>
    /\ readiness = None
    /\ \E method \in {"with_specific_limit", "with_wildcard_limit"}, key \in BuilderKeys :
          builder_arg = Some([method |-> method, key |-> key, limit |-> BuilderLimit])
    /\ NoRequest

\* the limit of ct_arg before the rule is added
BuilderBaseLimit ==
    /\ pc = "builder_ready"
    /\ base_out' = Some(get_limit_for_content_type(config, ct_arg))
    /\ pc' = "builder_base"
    /\ UNCHANGED <<config, strategy, ct_arg, out, error_arg, pipelines, builder_arg, readiness,
                   reqVars>>

\* config.with_specific_limit(key, limit) / config.with_wildcard_limit(key, limit)
BuilderAdds ==
    /\ pc = "builder_base"
    /\ config' = IF builder_arg[1].method = "with_specific_limit"
                 THEN with_specific_limit(config, builder_arg[1].key, builder_arg[1].limit)
                 ELSE with_wildcard_limit(config, builder_arg[1].key, builder_arg[1].limit)
    /\ pc' = "builder_added"
    /\ UNCHANGED <<strategy, ct_arg, out, base_out, error_arg, pipelines, builder_arg, readiness,
                   reqVars>>

\* config.get_limit_for_content_type(ct_arg) with the rule added
BuilderGetLimit ==
    /\ pc = "builder_added"
    /\ out' = Some(get_limit_for_content_type(config, ct_arg))
    /\ pc' = "builder_done"
    /\ UNCHANGED <<config, strategy, ct_arg, base_out, error_arg, pipelines,
                   builder_arg, readiness, reqVars>>

BuilderNext ==
    \/ BuilderBaseLimit
    \/ BuilderAdds
    \/ BuilderGetLimit

SpecBuilder == BuilderInit /\ [][BuilderNext]_vars

----------------------------------------------------------------------------
(* Chains of two builder calls of SizeLimitConfig, in both orders *)

\* the builder calls of a chain
OrderCalls ==
    [method : {"with_specific_limit"}, key : {<<"a", "/", "a">>, <<"A", "/", "a">>, <<"a">>},
     limit : {BuilderLimit, BuilderLimit + 1}]
    \cup [method : {"with_wildcard_limit"}, key : {<<"a", "/", "*">>, <<"A", "/", "*">>},
          limit : {BuilderLimit, BuilderLimit + 1}]
    \cup [method : {"with_default_limit"}, key : {<<>>},
          limit : {BuilderLimit, BuilderLimit + 1}]

\* the content types the chains are resolved for
OrderTypes ==
    {<<"a", "/", "a">>, <<"A", "/", "a", ";">>, <<"a", "/", "A">>, <<"a">>, <<"A">>,
     <<"a", "/", "b">>, <<"b", "/", "a">>, <<>>}

\* cfg.with_...(key, limit)
builder_call(cfg, c) ==
    CASE c.method = "with_specific_limit" -> with_specific_limit(cfg, c.key, c.limit)
      [] c.method = "with_wildcard_limit" -> with_wildcard_limit(cfg, c.key, c.limit)
      [] c.method = "with_default_limit" -> with_default_limit(cfg, c.limit)

OrderInit ==
    /\ pc = "order_ready"
    /\ config \in BuilderBases
    /\ strategy = BufferStrategy_new
    /\ ct_arg \in OrderTypes
    /\ out = None
    /\ base_out = None
    /\ error_arg = None
    /\ pipelines = <<>>
    /\ readiness = None
    /\ builder_arg \in {Some([first |-> c1, second |-> c2]) : c1, c2 \in OrderCalls}
    /\ NoRequest

\* config.first(..).second(..).get_limit_for_content_type(ct_arg)
OrderForward ==
    /\ pc = "order_ready"
    /\ out' = Some(get_limit_for_content_type(
                      builder_call(builder_call(config, builder_arg[1].first),
                                   builder_arg[1].second), ct_arg))
    /\ pc' = "order_forward"
    /\ UNCHANGED <<config, strategy, ct_arg, base_out, error_arg, pipelines,
                   builder_arg, readiness, reqVars>>

\* config.second(..).first(..).get_limit_for_content_type(ct_arg)
OrderBackward ==
    /\ pc = "order_forward"
    /\ base_out' = Some(get_limit_for_content_type(
                           builder_call(builder_call(config, builder_arg[1].second),
                                        builder_arg[1].first), ct_arg))
    /\ pc' = "order_done"
    /\ UNCHANGED <<config, strategy, ct_arg, out, error_arg, pipelines,
                   builder_arg, readiness, reqVars>>

OrderNext ==
    \/ OrderForward
    \/ OrderBackward

SpecOrder == OrderInit /\ [][OrderNext]_vars

----------------------------------------------------------------------------
(* Properties of the limit resolver and of the buffering policy *)

Range(s) == {s[i] : i \in 1..Len(s)}

\* the text of n before its first '/', for an n that contains one
TypeOf(n) ==
    CHOOSE p \in {SubSeq(n, 1, k) : k \in 0..Len(n)} :
        /\ "/" \notin Range(p)
        /\ Len(p) < Len(n)
        /\ n[Len(p) + 1] = "/"

WildcardKey(n) == TypeOf(n) \o <<"/", "*">>

ExactLimitApplies(cfg, n) == n \in DOMAIN cfg.specific_limits
WildcardLimitApplies(cfg, n) ==
    "/" \in Range(n) /\ WildcardKey(n) \in DOMAIN cfg.wildcard_limits

\* C5: get_limit_for_content_type(t) is specific_limits[norm(t)] when that key
\* exists; otherwise wildcard_limits[type(norm(t)) + "/*"] when norm(t) has a
\* '/' and that key exists; otherwise default_limit.  An exact entry wins over
\* a wildcard entry that matches the same type.
C5_ResolvePrecedence ==
    out # None =>
        LET n == ct_trimmed_of(ct_arg)
        IN  /\ ExactLimitApplies(config, n) => out[1] = config.specific_limits[n]
            /\ ~ExactLimitApplies(config, n) /\ WildcardLimitApplies(config, n)
                   => out[1] = config.wildcard_limits[WildcardKey(n)]
            /\ ~ExactLimitApplies(config, n) /\ ~WildcardLimitApplies(config, n)
                   => out[1] = config.default_limit

\* an exact and a wildcard entry both match, with different values, and the
\* exact one was returned
C5_Witness ==
    /\ pc = "limit_done"
    /\ ExactLimitApplies(config, ct_trimmed_of(ct_arg))
    /\ WildcardLimitApplies(config, ct_trimmed_of(ct_arg))
    /\ config.specific_limits[ct_trimmed_of(ct_arg)]
         # config.wildcard_limits[WildcardKey(ct_trimmed_of(ct_arg))]
    /\ out = Some(config.specific_limits[ct_trimmed_of(ct_arg)])

\* C6: the limit resolved for a content type is the limit resolved for every
\* variant of it that differs in letter case, in appended ';' parameters or in
\* surrounding whitespace, and for its normalised form; normalising a
\* normalised type changes nothing.
C6_NormalizationInsensitive ==
    /\ pc = "variant_done" => out = base_out
    /\ ct_trimmed_of(ct_trimmed_of(ct_arg)) = ct_trimmed_of(ct_arg)

\* a variant in upper case with a parameter separator resolved to the exact
\* entry of its lower-case type
C6_Witness ==
    /\ pc = "variant_done"
    /\ ";" \in Range(ct_arg)
    /\ "A" \in Range(ct_arg)
    /\ ExactLimitApplies(config, ct_trimmed_of(ct_arg))
    /\ out = Some(config.specific_limits[ct_trimmed_of(ct_arg)])

IsWildcardFor(entry, n) ==
    /\ ends_with(entry, <<"/", "*">>)
    /\ starts_with(n, SubSeq(entry, 1, Len(entry) - 1))

Rule1(s, n) == n \in Range(s.buffered_types)
Rule2(s, n) == n \in Range(s.streamed_types)
Rule3(s, n) == "/" \in Range(n) /\ WildcardKey(n) \in Range(s.buffered_types)
Rule4(s, n) == "/" \in Range(n) /\ WildcardKey(n) \in Range(s.streamed_types)
Rule5(s, n) == \E e \in Range(s.buffered_types) : IsWildcardFor(e, n)
Rule6(s, n) == \E e \in Range(s.streamed_types) : IsWildcardFor(e, n)

\* C8: should_buffer(t) is decided by the first matching rule among: exact in
\* buffered_types, exact in streamed_types, type/* in buffered_types, type/* in
\* streamed_types, prefix wildcard in buffered_types, prefix wildcard in
\* streamed_types, default_is_buffered.
C8_ShouldBufferPrecedence ==
    pc = "buffer_done" =>
        LET n == ct_trimmed_of(ct_arg)
            s == strategy
        IN  out[1] =
              CASE Rule1(s, n) -> TRUE
                [] ~Rule1(s, n) /\ Rule2(s, n) -> FALSE
                [] ~Rule1(s, n) /\ ~Rule2(s, n) /\ Rule3(s, n) -> TRUE
                [] ~Rule1(s, n) /\ ~Rule2(s, n) /\ ~Rule3(s, n) /\ Rule4(s, n) -> FALSE
                [] ~Rule1(s, n) /\ ~Rule2(s, n) /\ ~Rule3(s, n) /\ ~Rule4(s, n)
                     /\ Rule5(s, n) -> TRUE
                [] ~Rule1(s, n) /\ ~Rule2(s, n) /\ ~Rule3(s, n) /\ ~Rule4(s, n)
                     /\ ~Rule5(s, n) /\ Rule6(s, n) -> FALSE
                [] OTHER -> s.default_is_buffered

\* an exact streamed entry decided against a buffered wildcard for the same
\* type, with default_is_buffered pointing the other way
C8_Witness ==
    /\ pc = "buffer_done"
    /\ Rule2(strategy, ct_trimmed_of(ct_arg))
    /\ Rule3(strategy, ct_trimmed_of(ct_arg))
    /\ ~Rule1(strategy, ct_trimmed_of(ct_arg))
    /\ strategy.default_is_buffered
    /\ out = Some(FALSE)

----------------------------------------------------------------------------
(* Properties of SizeLimitService *)

RECURSIVE SumLen(_)
SumLen(items) ==
    IF items = <<>> THEN 0
    ELSE (IF items[1].kind = "chunk" THEN items[1].len ELSE 0) + SumLen(Tail(items))

\* the body's producer never fails
NoTransportError(body) == \A i \in 1..Len(body) : body[i].kind = "chunk"

ErrDelivered == \E i \in 1..Len(delivered) : delivered[i].kind = "err"

\* C1: the chunks delivered to the inner service never add up to more than
\* max_size.
C1_DeliveredWithinLimit == SumLen(delivered) <= max_size

\* the handler was given chunks up to the limit exactly, and then the
\* BodyTooLarge error of the chunk that would have crossed it
C1_Witness ==
    /\ Len(delivered) = 3
    /\ delivered[1].kind = "chunk" /\ delivered[1].len > 0
    /\ delivered[2].kind = "chunk" /\ delivered[2].len > 0
    /\ delivered[3].kind = "err" /\ delivered[3].err.tag = "BodyTooLarge"
    /\ SumLen(delivered) = max_size

\* C2: once a wrapper has yielded an error, every later poll returns end of
\* stream without polling the wrapper's inner stream or the producer: no
\* further chunk, no second error.
C2_LatchedPollsEnd ==
    [][(pc = "svc_handler" /\ (sls.has_errored \/ scb.has_errored \/ ErrDelivered))
        => /\ prod_pos' = prod_pos
           /\ sls' = sls
           /\ scb' = scb
           /\ delivered' # delivered => delivered' = Append(delivered, EosItem)
           /\ (delivered' # delivered \/ last_poll' # last_poll)
                => last_poll' = [result |-> "eos", inner_polled |-> FALSE,
                                 producer_polled |-> FALSE]]_vars

\* after an error the handler polled again and got end of stream, while the
\* producer still had items to give
C2_Witness ==
    /\ \E i \in 1..(Len(delivered) - 1) :
          delivered[i].kind = "err" /\ delivered[i + 1].kind = "eos"
    /\ scb.has_errored
    /\ sls.has_errored
    /\ prod_pos < Len(req.body)

\* the handler read its body until it got an error or the end of the stream
HandlerReadToEnd ==
    delivered # <<>> /\ delivered[Len(delivered)].kind \in {"err", "eos"}

\* C3 (as claimed): a request whose body is larger than the resolved limit is
\* answered with the error format's rendering of the size violation, which is
\* status 413 for the built-in formats (here for the requests whose handler,
\* if invoked, reads its body to the end).
C3_OversizeRejected ==
    (pc = "svc_done" /\ NoTransportError(req.body) /\ SumLen(req.body) > max_size
       /\ (handler_calls > 0 => HandlerReadToEnd))
        => /\ response[1].origin = "handle_error"
           /\ response[1].error.tag \in {"BodyTooLarge", "ChunkTooLarge"}
           /\ config.error_format.kind # "Custom" => response[1].status = 413

ChunksWithinCeiling(body) ==
    \A i \in 1..Len(body) : body[i].len <= MAX_INDIVIDUAL_CHUNK_SIZE

\* what C4 says of a request once its limit is resolved
ForwardedUnchanged ==
    /\ pc \in {"svc_handler", "svc_body_dropped", "svc_done",
            "svc_panicked"}
    /\ pc = "svc_done" => handler_calls = 1
    /\ \A i \in 1..Len(delivered) :
          delivered[i] = IF i <= Len(req.body) THEN req.body[i] ELSE EosItem
    /\ (handler_ret # None /\ handler_ret[1].ok)
          => response = Some(Response(handler_ret[1].status, "handler", NoError))

\* C4 (as claimed): when the producer ends without error and the body is
\* within the limit, the inner service is invoked once, reads exactly the
\* producer's chunks and then end of stream, and its response is returned.
C4_WithinLimitForwarded_AsClaimed ==
    (pc \notin {"svc_start", "svc_peek"} /\ NoTransportError(req.body)
       /\ SumLen(req.body) <= max_size)
        => ForwardedUnchanged

\* C4 (amended): the same, for bodies none of whose chunks is larger than
\* MAX_INDIVIDUAL_CHUNK_SIZE.
C4_WithinLimitForwarded ==
    (pc \notin {"svc_start", "svc_peek"} /\ NoTransportError(req.body)
       /\ SumLen(req.body) <= max_size /\ ChunksWithinCeiling(req.body))
        => ForwardedUnchanged

\* a body of several chunks that fills its limit exactly was read to the end
\* by the handler, whose response came back
C4_Witness ==
    /\ pc = "svc_done"
    /\ NoTransportError(req.body)
    /\ Len(req.body) >= 2
    /\ SumLen(req.body) = max_size
    /\ delivered = req.body \o <<EosItem>>
    /\ handler_calls = 1
    /\ response = Some(Response(200, "handler", NoError))

\* C10 (as claimed): the service rejects a request whose declared
\* Content-Length is above the limit with 413 and without invoking the inner
\* service, also when the body itself is within the limit.
C10_ServiceEarlyReject ==
    (pc = "svc_done" /\ declared_length(req) # None
       /\ declared_length(req)[1] > max_size
       /\ NoTransportError(req.body) /\ SumLen(req.body) <= max_size
       /\ config.error_format.kind # "Custom")
        => /\ response[1].status = 413
           /\ handler_calls = 0

----------------------------------------------------------------------------
(* Properties of requests through SizeLimitService and with_size_limit *)

\* the request has no Content-Type header, or one that is not text
NoUsableContentType ==
    req.content_type = None \/ to_str(req.content_type[1]) = None

\* the entry point has resolved the limit of the request
LimitResolved == pc \notin {"svc_start", "mw_start"}

\* the limit the configuration gives to application/octet-stream
OctetStreamLimit ==
    IF OCTET_STREAM \in DOMAIN config.specific_limits
    THEN config.specific_limits[OCTET_STREAM]
    ELSE IF APPLICATION_ANY \in DOMAIN config.wildcard_limits
    THEN config.wildcard_limits[APPLICATION_ANY]
    ELSE config.default_limit

\* C7, as claimed: a request without a Content-Type header, or with one
\* that is not text, is enforced against default_limit, whatever the
\* configuration, by SizeLimitService and by with_size_limit.
C7_AbsentTypeUsesDefault_AsClaimed ==
    (LimitResolved /\ NoUsableContentType) => max_size = config.default_limit

\* C7, amended: a request without a Content-Type header, or with one that is
\* not text, is enforced by SizeLimitService and by with_size_limit against
\* the limit of application/octet-stream: the specific limit of that type,
\* else the limit of application/*, else default_limit.
C7_AbsentTypeUsesOctetStream ==
    (LimitResolved /\ NoUsableContentType) =>
        /\ max_size = OctetStreamLimit
        /\ (config.specific_limits = <<>> /\ config.wildcard_limits = <<>>)
               => max_size = config.default_limit

\* a request without a header answered by with_size_limit, and one with a
\* header that is not text handled by SizeLimitService, under a limit that
\* is not the default one
C7_Witness ==
    /\ NoUsableContentType
    /\ max_size # config.default_limit
    /\ \/ pc = "mw_done" /\ req.content_type = None
       \/ pc = "svc_done" /\ req.content_type # None

\* C9: in with_size_limit, a request whose Content-Length parses to an integer
\* above the resolved limit is answered 413 with no item of the body read from
\* the producer, the forwarding task never spawned, and next never invoked.
C9_EarlyRejectBeforeBody ==
    (pc \in {"mw_buffer", "mw_wait", "mw_cancelled", "mw_handler_buffered",
             "mw_handler_streamed", "mw_done"}
        /\ declared_length(req) # None
        /\ declared_length(req)[1] > max_size) =>
        /\ pc = "mw_done"
        /\ response = Some(Response(413, "early_reject", NoError))
        /\ prod_pos = 0
        /\ task = IdleTask
        /\ collected = <<>> /\ chan = <<>> /\ delivered = <<>>
        /\ handler_calls = 0
        /\ handler_ret = None

\* a request with a body within the limit, rejected on a declared length one
\* above the limit
C9_Witness ==
    /\ pc = "mw_done"
    /\ declared_length(req) = Some(max_size + 1)
    /\ SumLenOf(req.body) <= max_size
    /\ req.body # <<>>
    /\ response # None /\ response[1].status = 413

----------------------------------------------------------------------------
(* Properties of with_size_limit *)

\* the request is past the early rejection, in buffer_with_limit or in
\* stream_with_limit
PastEarlyReject == pc \in {"mw_buffer", "mw_wait"}

\* the declared length, if any, is not above the limit
DeclaredWithinLimit ==
    declared_length(req) = None \/ declared_length(req)[1] <= max_size

\* the request has been answered 413 and next has not been run
Rejected413 ==
    /\ pc = "mw_done"
    /\ response # None /\ response[1].status = 413
    /\ handler_calls = 0

\* C11: in with_size_limit a request whose Content-Length is absent,
\* unparsable or within the limit, and whose body (of a size a usize holds,
\* produced without error) is larger than the limit, is answered 413 without
\* next being run, whether the body is buffered or streamed, as long as the
\* client waits for the answer.
C11_UntrustedLengthRejected ==
    (/\ PastEarlyReject
     /\ DeclaredWithinLimit
     /\ NoTransportError(req.body)
     /\ SumLenOf(req.body) > max_size
     /\ SumLenOf(req.body) <= USIZE_MAX) ~> (Rejected413 \/ pc = "mw_cancelled")

\* the request with its Content-Length header removed
WithoutContentLength == [req EXCEPT !.content_length = None]

\* next has been run once and its response is the answer
AnsweredByHandler ==
    /\ pc = "mw_done"
    /\ handler_calls = 1
    /\ handler_ret # None
    /\ response = Some(Response(handler_ret[1].status, "handler", NoError))

\* C12: in with_size_limit a request whose Content-Length header is absent or
\* does not parse as usize is never answered by the early rejection: it gets
\* the limit and the path (buffered or streamed) of the request without the
\* header, and when its body is produced without error and is within the
\* limit, its answer is the response of next.
C12_UnparsableLengthPasses ==
    (pc # "mw_start" /\ declared_length(req) = None) =>
        /\ max_size = get_limit_for_content_type(config,
                          content_type_of(WithoutContentLength))
        /\ response # None => response[1].origin # "early_reject"
        /\ pc \in {"mw_buffer", "mw_handler_buffered"} =>
               should_buffer(strategy, content_type_of(WithoutContentLength))
        /\ pc \in {"mw_wait", "mw_cancelled", "mw_handler_streamed"} =>
               ~should_buffer(strategy, content_type_of(WithoutContentLength))
        /\ (pc = "mw_done" /\ NoTransportError(req.body)
                /\ SumLenOf(req.body) <= max_size) => AnsweredByHandler

\* a request with a Content-Length that does not parse, answered by next
C12_Witness ==
    /\ req.content_length # None
    /\ declared_length(req) = None
    /\ req.body # <<>>
    /\ AnsweredByHandler

\* the request went through buffer_with_limit
BufferedPath ==
    /\ should_buffer(strategy, content_type_of(req))
    /\ \/ pc \in {"mw_buffer", "mw_handler_buffered"}
       \/ pc = "mw_done" /\ response[1].origin # "early_reject"

\* the data frames next has read and has still to read from its body
FramesOfNext == SelectSeq(delivered, LAMBDA item : item.kind = "chunk") \o chan

\* C13: in buffer_with_limit next is run at most once, and only after the
\* whole body was read without error with a length of at most max_size; it
\* then gets a body made of exactly the bytes of the producer's chunks, in
\* order.  When buffer_with_limit has answered, next was run if and only if
\* the body was error-free and within max_size, and otherwise the answer is
\* 413.
C13_BufferedAllOrNothing ==
    BufferedPath =>
        /\ handler_calls <= 1
        /\ handler_calls = 1 =>
               /\ NoTransportError(req.body)
               /\ SumLenOf(req.body) <= max_size
               /\ prod_pos = Len(req.body)
               /\ collected = req.body
               /\ FramesOfNext = body_from(req.body)
        /\ pc = "mw_done" =>
               /\ handler_calls = 1 <=>
                      (NoTransportError(req.body) /\ SumLenOf(req.body) <= max_size)
               /\ handler_calls = 0 => response[1].status = 413

\* next has read the frame made of a body of several chunks that exactly
\* fills the limit
C13_Witness ==
    /\ BufferedPath
    /\ pc = "mw_done"
    /\ handler_calls = 1
    /\ Len(req.body) >= 2
    /\ SumLenOf(req.body) = max_size
    /\ \E i \in 1..Len(delivered) : delivered[i].kind = "chunk"

\* C14: in stream_with_limit, however the body (of a size a usize holds,
\* produced without error) is split into chunks, and as long as the client
\* waits for the answer: a body larger than max_size is answered 413 without
\* next being run, and a body within max_size is answered by the response of
\* next.
C14_StreamedOutcome ==
    (/\ pc = "mw_wait"
     /\ NoTransportError(req.body)
     /\ SumLenOf(req.body) <= USIZE_MAX)
        ~> \/ pc = "mw_cancelled"
           \/ SumLenOf(req.body) > max_size /\ Rejected413
           \/ SumLenOf(req.body) <= max_size /\ AnsweredByHandler

----------------------------------------------------------------------------
(* Properties of the enforcers of SizeLimitService *)

\* the bytes of the first k chunks of a body
PrefixSum(body, k) == SumLenOf(SubSeq(body, 1, k))

\* the place of the first chunk with which a body passes `limit`; 0 if none
FirstOver(body, limit) ==
    IF \E k \in 1..Len(body) : PrefixSum(body, k) > limit
    THEN SetMin({k \in 1..Len(body) : PrefixSum(body, k) > limit})
    ELSE 0

\* what C15 says of a request once its limit is resolved: the chunks before
\* the first one that passes max_size are forwarded, that one is reported as
\* BodyTooLarge with the bytes up to and including it (by the response when
\* it is the first chunk, by the error item otherwise), nothing follows
CumulativeBoundary ==
    LET k == FirstOver(req.body, max_size)
    IN  /\ k = 1 =>
            /\ pc = "svc_done"
            /\ handler_calls = 0
            /\ response = Some(handle_error(config.error_format,
                                  BodyTooLarge(max_size, PrefixSum(req.body, 1))))
        /\ \A i \in 1..Len(delivered) :
              delivered[i] =
                  IF i <= Len(req.body) /\ (k = 0 \/ i < k) THEN req.body[i]
                  ELSE IF i = k
                  THEN ErrItem(BodyTooLarge(max_size, PrefixSum(req.body, k)))
                  ELSE EosItem

\* C15 (as claimed): for every chunk sequence and max_size the enforcer
\* forwards the chunks whose prefix sum is within max_size and reports the
\* first chunk whose prefix sum passes it as BodyTooLarge{max_size, prefix sum}.
C15_CumulativeBoundary_AsClaimed ==
    (pc \in {"svc_handler", "svc_body_dropped", "svc_done",
            "svc_panicked"} /\ NoTransportError(req.body))
        => CumulativeBoundary

\* C15 (amended): the same, for chunk sequences none of whose chunks is larger
\* than MAX_INDIVIDUAL_CHUNK_SIZE and whose total size a usize holds.
C15_CumulativeBoundary ==
    (pc \in {"svc_handler", "svc_body_dropped", "svc_done",
            "svc_panicked"} /\ NoTransportError(req.body)
        /\ ChunksWithinCeiling(req.body) /\ SumLenOf(req.body) <= USIZE_MAX)
        => CumulativeBoundary

\* chunks of 2 and 2 bytes against a limit of 3: the first was forwarded, the
\* second reported as BodyTooLarge{3, 4}
C15_Witness ==
    /\ pc = "svc_handler"
    /\ NoTransportError(req.body)
    /\ FirstOver(req.body, max_size) = 2
    /\ Len(delivered) >= 2
    /\ delivered[1] = req.body[1]
    /\ delivered[2] = ErrItem(BodyTooLarge(max_size, PrefixSum(req.body, 2)))
    /\ PrefixSum(req.body, 2) > req.body[2].len

\* the byte counters of the two wrappers hold the bytes of the chunks that
\* passed: the peeked first chunk and the chunks delivered after it
CountersCorrect ==
    pc = "svc_handler" =>
        /\ sls.bytes_read = scb.bytes_read
        /\ sls.bytes_read =
               (IF first_chunk # None THEN first_chunk[1].len ELSE 0) + SumLen(delivered)
        /\ sls.bytes_read <= max_size

\* the handler polls its body, the wrappers have not failed yet, and the
\* producer yields a chunk that does not fit in the counter
OverflowingChunk ==
    /\ pc = "svc_handler"
    /\ first_chunk = None
    /\ ~sls.has_errored /\ ~scb.has_errored
    /\ prod_pos < Len(req.body)
    /\ req.body[prod_pos + 1].kind = "chunk"
    /\ sls.bytes_read + req.body[prod_pos + 1].len > USIZE_MAX
    /\ prod_pos' = prod_pos + 1

\* ... and is answered with SizeOverflow, the latches set and the counters
\* left as they were
YieldsSizeOverflow ==
    /\ delivered' = Append(delivered, ErrItem(SizeOverflow))
    /\ sls'.has_errored /\ scb'.has_errored
    /\ sls'.bytes_read = sls.bytes_read
    /\ scb'.bytes_read = scb.bytes_read

\* C16 (as claimed): a chunk whose size added to bytes_read passes the
\* largest usize yields SizeOverflow with the latch set, and bytes_read
\* always holds the true count of the bytes that passed.
C16_OverflowGuard_AsClaimed ==
    [][CountersCorrect' /\ (OverflowingChunk => YieldsSizeOverflow)]_vars

\* C16 (amended): the same, for a chunk that is not larger than
\* MAX_INDIVIDUAL_CHUNK_SIZE.
C16_OverflowGuard ==
    [][/\ CountersCorrect'
       /\ (OverflowingChunk
             /\ req.body[prod_pos + 1].len <= MAX_INDIVIDUAL_CHUNK_SIZE)
            => YieldsSizeOverflow]_vars

\* the handler has read a chunk and then SizeOverflow, and the counters hold
\* the bytes of that chunk
C16_Witness ==
    /\ pc = "svc_handler"
    /\ Len(delivered) = 2
    /\ Len(req.body) >= 2
    /\ delivered[1].kind = "chunk"
    /\ delivered[2] = ErrItem(SizeOverflow)
    /\ sls.has_errored /\ scb.has_errored
    /\ sls.bytes_read = delivered[1].len
    /\ sls.bytes_read + req.body[2].len > USIZE_MAX

\* the next item of the producer is a chunk above the ceiling of a single chunk
NextChunkAboveCeiling ==
    /\ prod_pos < Len(req.body)
    /\ req.body[prod_pos + 1].kind = "chunk"
    /\ req.body[prod_pos + 1].len > MAX_INDIVIDUAL_CHUNK_SIZE

\* C17: a chunk larger than MAX_INDIVIDUAL_CHUNK_SIZE is answered with
\* ChunkTooLarge{ceiling, size of the chunk} whatever max_size is, also when
\* it passes max_size; it is neither forwarded nor counted. The first chunk
\* is answered by the response of call, a later one by the item the handler
\* reads.
C17_CeilingFirst ==
    [][/\ (pc = "svc_peek" /\ NextChunkAboveCeiling /\ prod_pos' = prod_pos + 1)
            => /\ response' = Some(handle_error(config.error_format,
                                 ChunkTooLarge(MAX_INDIVIDUAL_CHUNK_SIZE,
                                               req.body[prod_pos + 1].len)))
               /\ pc' = "svc_done"
               /\ handler_calls' = 0
               /\ total_read' = 0
       /\ (pc = "svc_handler" /\ NextChunkAboveCeiling /\ prod_pos' = prod_pos + 1)
            => /\ delivered' = Append(delivered,
                                 ErrItem(ChunkTooLarge(MAX_INDIVIDUAL_CHUNK_SIZE,
                                                       req.body[prod_pos + 1].len)))
               /\ sls'.has_errored /\ scb'.has_errored
               /\ sls'.bytes_read = sls.bytes_read
               /\ scb'.bytes_read = scb.bytes_read]_vars

\* the handler has read a chunk and then ChunkTooLarge for a chunk that also
\* passes max_size
C17_Witness ==
    /\ pc = "svc_handler"
    /\ Len(delivered) = 2
    /\ Len(req.body) >= 2
    /\ delivered[1].kind = "chunk"
    /\ delivered[2] = ErrItem(ChunkTooLarge(MAX_INDIVIDUAL_CHUNK_SIZE, req.body[2].len))
    /\ req.body[2].len > max_size
    /\ sls.bytes_read = delivered[1].len

\* C18: when the producer yields an error to the wrappers, the item the
\* handler reads is that error and no size error, both latches are set, and
\* bytes_read is what it was.
C18_ProducerErrorPassesThrough ==
    [][(/\ pc = "svc_handler"
        /\ prod_pos < Len(req.body)
        /\ req.body[prod_pos + 1].kind = "err"
        /\ prod_pos' = prod_pos + 1)
          => /\ delivered' = Append(delivered, ErrItem(req.body[prod_pos + 1].err))
             /\ delivered'[Len(delivered')].err.tag
                  \notin {BodyTooLarge(0, 0).tag, ChunkTooLarge(0, 0).tag, SizeOverflow.tag}
             /\ sls'.has_errored /\ scb'.has_errored
             /\ sls'.bytes_read = sls.bytes_read
             /\ scb'.bytes_read = scb.bytes_read]_vars

\* the handler has read a chunk and then the producer's error
C18_Witness ==
    /\ pc = "svc_handler"
    /\ Len(delivered) = 2
    /\ Len(req.body) >= 2
    /\ req.body[2].kind = "err"
    /\ delivered[1].kind = "chunk"
    /\ delivered[2] = ErrItem(req.body[2].err)
    /\ sls.has_errored /\ scb.has_errored
    /\ sls.bytes_read = delivered[1].len

(***************************************************************************)
(* Properties of the order of the chunks                                   *)
(***************************************************************************)

ChunksOf(items) == SelectSeq(items, LAMBDA item : item.kind = "chunk")

\* the chunks on their way to the consumer, oldest first: those it has read,
\* the first chunk ChainedStream holds, those in the channel
ChunksForwarded == ChunksOf(delivered) \o first_chunk \o ChunksOf(chan)

\* the request goes through SizeLimitService or through stream_with_limit
ChunkwisePath ==
    \/ pc \in {"svc_start", "svc_peek", "svc_handler", "svc_body_dropped", "svc_done",
            "svc_panicked"}
    \/ task.pc # "idle"

\* C19: the chunks forwarded to the consumer are a prefix of the chunks of
\* the producer: the i-th chunk forwarded is the i-th item the producer
\* yielded, unchanged; this covers the first chunk held by ChainedStream and
\* the chunks in the channel of stream_with_limit.
C19_ForwardedIsPrefix ==
    ChunkwisePath =>
        /\ Len(ChunksForwarded) <= prod_pos
        /\ \A i \in 1..Len(ChunksForwarded) : ChunksForwarded[i] = req.body[i]

\* the consumer behind stream_with_limit has read two chunks and a third is
\* in the channel
C19_Witness ==
    /\ pc = "mw_handler_streamed"
    /\ Len(ChunksOf(delivered)) = 2
    /\ Len(ChunksOf(chan)) = 1
    /\ ChunksForwarded = SubSeq(req.body, 1, 3)

\* the chunks taken from the producer so far
ChunksTaken == Len(ChunksOf(SubSeq(req.body, 1, prod_pos)))

\* the items the consumer has requested so far: those it has been given, and
\* the one it waits for after a poll that returned Pending
ItemsRequested == Len(delivered) + (IF last_poll.result = "pending" THEN 1 ELSE 0)

\* C20: nothing is taken from the producer ahead of the consumer: in every
\* state the number of chunks taken from the producer is at most the number
\* of items the consumer has requested.
C20_NoReadAhead == ChunkwisePath => ChunksTaken <= ItemsRequested

(***************************************************************************)
(* Properties of ErrorFormat                                               *)
(***************************************************************************)

\* C21: with a built-in format, handle_error answers BodyTooLarge and
\* ChunkTooLarge with status 413, SizeOverflow and Other with status 400.
C21_StatusOfError ==
    (pc = "error_done" /\ config.error_format \in BuiltInFormats) =>
        /\ error_arg[1].tag \in {BodyTooLarge(0, 0).tag, ChunkTooLarge(0, 0).tag}
             => response[1].status = 413
        /\ error_arg[1].tag \in {SizeOverflow.tag, Other.tag}
             => response[1].status = 400
        /\ response[1].status \in {400, 413}

\* the PlainText format has answered SizeOverflow with 400
C21_Witness ==
    /\ pc = "error_done"
    /\ config.error_format = PlainText
    /\ error_arg = Some(SizeOverflow)
    /\ response[1].status = 400

(***************************************************************************)
(* Properties of the errors of the inner service and of the producer       *)
(***************************************************************************)

\* the inner service has returned an error of its own, not one its body
\* gave it
OwnErrorReturned ==
    /\ pc = "svc_done"
    /\ handler_ret # None
    /\ ~handler_ret[1].ok
    /\ handler_ret[1].own

\* C22: an error of the inner service that no size violation caused is
\* answered with status 500 and never as a size error; only an error that
\* comes from a size violation is rendered as BodyTooLarge.
C22_InnerErrorIs500 ==
    OwnErrorReturned =>
        /\ response[1].status = 500
        /\ response[1].error.tag # BodyTooLarge(0, 0).tag

\* the producer has yielded an error while the body was read
ProducerErrorRead == \E i \in 1..prod_pos : req.body[i].kind = "err"

\* C23: a request whose producer yielded an error is never answered as a
\* size violation: when the response is not the handler's own, its status
\* is 400 or 500, and it is never 413.
C23_ProducerErrorIsNot413 ==
    (response # None /\ ProducerErrorRead) =>
        /\ response[1].status # 413
        /\ response[1].origin # "handler" => response[1].status \in {400, 500}

(***************************************************************************)
(* Properties of concurrent requests                                       *)
(***************************************************************************)

RECURSIVE Alone(_, _, _)
\* a request processed alone: from `called`, its future once call has
\* resolved the limit, through the first item and `polls` polls of the body
\* by the inner service
Alone(cfg, called, polls) ==
    IF polls = 0 THEN call_peek(cfg, called)
    ELSE LET before == Alone(cfg, called, polls - 1)
         IN  IF before.pc = "svc_handler" THEN body_poll(before, before) ELSE before

\* the limit of request `id` is the one it has alone
LimitAsAlone(id) ==
    pipelines[id].pc = "svc_peek" =>
        pipelines[id] = call_limit(config, new_pipeline(pipelines[id].req))

\* request `id` is where it would be alone after as many polls of its body
SameAsAlone(id) ==
    LET p == pipelines[id]
        alone == Alone(config,
                       [new_pipeline(p.req) EXCEPT !.max_size = p.max_size,
                                                   !.pc = "svc_peek"],
                       Len(p.delivered))
    IN  /\ p.delivered = alone.delivered
        /\ p.sls = alone.sls
        /\ p.scb = alone.scb
        /\ p.first_chunk = alone.first_chunk
        /\ p.prod_pos = alone.prod_pos
        /\ p.total_read = alone.total_read
        /\ p.handler_calls = alone.handler_calls
        /\ p.handler_ret = None => p.response = alone.response
        /\ p.handler_ret # None =>
              p.response = call_returns(config, alone, p.handler_ret[1]).response

\* C24: under every interleaving of the steps of concurrent requests, each
\* request has the limit, forwarded chunks, errors, counters, latches and
\* response it would have alone; its limit and its request stay its own once
\* resolved, and no step changes the shared configuration.
C24_RequestsIsolated ==
    /\ [](pc = "pair" =>
            \A id \in RequestIds :
                /\ LimitAsAlone(id)
                /\ pipelines[id].pc \in {"svc_handler", "svc_done"} => SameAsAlone(id))
    /\ [][pc = "pair" =>
            /\ config' = config
            /\ \A id \in RequestIds :
                  /\ pipelines'[id].req = pipelines[id].req
                  /\ pipelines[id].pc # "svc_start" =>
                        pipelines'[id].max_size = pipelines[id].max_size]_vars

\* two requests are in their handlers, each has read a chunk, and the first
\* has gone on to an error of its wrappers while the second has not
C24_Witness ==
    /\ pc = "pair"
    /\ pipelines[1].pc = "svc_handler" /\ pipelines[2].pc = "svc_handler"
    /\ pipelines[1].sls.has_errored /\ ~pipelines[2].sls.has_errored
    /\ pipelines[1].sls.bytes_read > 0 /\ pipelines[2].sls.bytes_read > 0
    /\ Len(pipelines[1].delivered) = 2 /\ Len(pipelines[2].delivered) = 1

(***************************************************************************)
(* Properties of dropping the body                                         *)
(***************************************************************************)

\* C25: when the body handed to the inner service is dropped, in whatever
\* state its wrappers are, no latch is set, no counter changes, nothing is
\* yielded to the handler, and the producer is not polled, neither by the
\* drop nor at any time after it.
C25_DropIsSilent ==
    [][(pc' = "svc_body_dropped" \/ pc = "svc_body_dropped")
          => /\ sls' = sls
             /\ scb' = scb
             /\ delivered' = delivered
             /\ prod_pos' = prod_pos]_vars

\* the body was dropped after one chunk, with more to come and no latch set
C25_Witness ==
    /\ pc = "svc_body_dropped"
    /\ Len(delivered) = 1 /\ delivered[1].kind = "chunk"
    /\ prod_pos < Len(req.body)
    /\ ~sls.has_errored /\ ~scb.has_errored
    /\ scb.bytes_read < scb.max_size

(***************************************************************************)
(* Properties of the constructors of BufferStrategy                        *)
(***************************************************************************)

\* C26: all_buffered() buffers every content type and all_streamed()
\* streams every content type; with_defaults() buffers application/json and
\* streams video/mp4.
C26_ConstructedStrategies ==
    pc = "buffer_done" =>
        /\ strategy = BufferStrategy_all_buffered => out = Some(TRUE)
        /\ strategy = BufferStrategy_all_streamed => out = Some(FALSE)
        /\ (strategy = BufferStrategy_with_defaults /\ ct_arg = APPLICATION_JSON)
             => out = Some(TRUE)
        /\ (strategy = BufferStrategy_with_defaults /\ ct_arg = VIDEO_MP4)
             => out = Some(FALSE)

\* all_buffered() has answered for video/mp4
C26_Witness ==
    /\ pc = "buffer_done"
    /\ strategy = BufferStrategy_all_buffered
    /\ ct_arg = VIDEO_MP4
    /\ out = Some(TRUE)

(***************************************************************************)
(* Properties of the builder methods of SizeLimitConfig                    *)
(***************************************************************************)

HasChar(str, c) == \E i \in 1..Len(str) : str[i] = c

\* a type as a client names it: no parameters, no whitespace around it
BareType(key) == ~HasChar(key, ";") /\ trim(key) = key

\* a pattern "T/*" whose T has no '/'
WildcardPattern(key) ==
    /\ BareType(key)
    /\ ends_with(key, <<"/", "*">>)
    /\ find(key, "/") = Some(Len(key) - 1)

\* ct is the registered type in some letter case, with or without parameters
CaseVariantOf(ct, key) ==
    \/ to_lowercase(ct) = to_lowercase(key)
    \/ \E i \in 1..Len(ct) :
          ct[i] = ";" /\ to_lowercase(SubSeq(ct, 1, i - 1)) = to_lowercase(key)

\* ct names a subtype of the type of the registered pattern, in some letter case
SubtypeOf(ct, key) ==
    /\ ends_with(key, <<"/", "*">>)
    /\ starts_with(to_lowercase(ct), to_lowercase(SubSeq(key, 1, Len(key) - 1)))

\* the normalised ct builds the registered pattern
MatchesPattern(ct, key) ==
    LET ct_trimmed == ct_trimmed_of(ct)
        slash == find(ct_trimmed, "/")
    IN  slash # None /\ wildcard_of(ct_trimmed, slash[1]) = to_lowercase(key)

RuleAdded(method) ==
    /\ pc = "builder_done"
    /\ builder_arg[1].method = method

\* C27 (as claimed): with_specific_limit(M, L) gives L to every case variant
\* of M, with or without parameters, and to no type whose normalised form
\* differs from lower-cased M; with_wildcard_limit("T/*", L) gives L to
\* every subtype of T in any letter case.
C27_RuleApplies_AsClaimed ==
    /\ RuleAdded("with_specific_limit") =>
          /\ CaseVariantOf(ct_arg, builder_arg[1].key) => out = Some(builder_arg[1].limit)
          /\ ct_trimmed_of(ct_arg) # to_lowercase(builder_arg[1].key)
                => out # Some(builder_arg[1].limit)
    /\ RuleAdded("with_wildcard_limit") =>
          (SubtypeOf(ct_arg, builder_arg[1].key) => out = Some(builder_arg[1].limit))

\* C27 (amended): for M without parameters and without whitespace around it,
\* with_specific_limit(M, L) gives L to the types whose normalised form is
\* lower-cased M and leaves the limit of every other type as it was; for a
\* pattern "T/*" of that kind whose T has no '/', with_wildcard_limit gives
\* L to the types that build the pattern and have no specific limit, and
\* leaves the limit of every other type as it was.
C27_RuleApplies ==
    /\ (RuleAdded("with_specific_limit") /\ BareType(builder_arg[1].key)) =>
          IF ct_trimmed_of(ct_arg) = to_lowercase(builder_arg[1].key)
          THEN out = Some(builder_arg[1].limit)
          ELSE out = base_out
    /\ (RuleAdded("with_wildcard_limit") /\ WildcardPattern(builder_arg[1].key)) =>
          IF /\ MatchesPattern(ct_arg, builder_arg[1].key)
             /\ ct_trimmed_of(ct_arg) \notin DOMAIN config.specific_limits
          THEN out = Some(builder_arg[1].limit)
          ELSE out = base_out

\* the type registered as "A/a" has given its limit to "a/A"
C27_Witness ==
    /\ RuleAdded("with_specific_limit")
    /\ builder_arg[1].key = <<"A", "/", "a">>
    /\ ct_arg = <<"a", "/", "A">>
    /\ out = Some(builder_arg[1].limit)
    /\ base_out # out

(***************************************************************************)
(* Properties of the progress of stream_with_limit                         *)
(***************************************************************************)

\* C28: every request on the streamed path is answered in the end, whatever
\* the number of chunks of its body, unless the client goes away first:
\* stream_with_limit never waits forever for the signal of its task or on a
\* full channel.
C28_StreamedPathResponds ==
    pc = "mw_wait" ~> (response # None \/ pc = "mw_cancelled")

(***************************************************************************)
(* Properties of the first chunk and of the counters                       *)
(***************************************************************************)

InService ==
    pc \in {"svc_start", "svc_peek", "svc_handler", "svc_body_dropped", "svc_done",
            "svc_panicked"}

\* call has taken a chunk as the first item of the producer
FirstChunkTaken == InService /\ prod_pos >= 1 /\ req.body[1].kind = "chunk"

\* the first chunk breaks a rule: the ceiling, the addition, the limit
FirstChunkViolates ==
    \/ req.body[1].len > MAX_INDIVIDUAL_CHUNK_SIZE
    \/ checked_add(0, req.body[1].len) = None
    \/ req.body[1].len > max_size

\* C29: call takes at most one item from the producer before it invokes the
\* inner service; a first chunk that breaks the ceiling, the checked
\* addition or the limit is answered without the inner service ever being
\* invoked; otherwise the wrappers start with a counter equal to the size of
\* the first chunk, and the first item the consumer receives is that chunk.
C29_FirstChunk ==
    /\ (InService /\ handler_calls = 0) => prod_pos <= 1
    /\ (FirstChunkTaken /\ FirstChunkViolates) =>
          /\ handler_calls = 0
          /\ pc = "svc_done"
          /\ response[1].origin = "handle_error"
          /\ response[1].error.tag \in {ChunkTooLarge(0, 0).tag, BodyTooLarge(0, 0).tag}
    /\ (FirstChunkTaken /\ ~FirstChunkViolates) =>
          /\ handler_calls = 1
          /\ first_chunk # None =>
                /\ first_chunk = Some(req.body[1])
                /\ delivered = <<>>
                /\ prod_pos = 1
                /\ sls.bytes_read = req.body[1].len
                /\ scb.bytes_read = req.body[1].len
          /\ first_chunk = None => (delivered # <<>> /\ delivered[1] = req.body[1])

\* the inner service is invoked with a first chunk of more than zero bytes
\* held for it and the counters at its size
C29_Witness ==
    /\ pc = "svc_handler"
    /\ handler_calls = 1
    /\ first_chunk # None
    /\ first_chunk[1].len > 0
    /\ prod_pos = 1
    /\ sls.bytes_read = first_chunk[1].len

\* the bytes of the chunks accepted so far: the first chunk and the chunks
\* the wrappers forwarded
AcceptedBytes ==
    (IF first_chunk # None THEN first_chunk[1].len ELSE 0) + SumLen(delivered)

\* C30: in every state of the wrappers that call created, bytes_read is at
\* most max_size and is the sum of the sizes of the chunks accepted so far,
\* and no step makes it smaller.
C30_CounterInvariant ==
    /\ []((InService /\ handler_calls = 1) =>
            /\ sls.bytes_read <= sls.max_size
            /\ scb.bytes_read <= scb.max_size
            /\ sls.max_size = max_size /\ scb.max_size = max_size
            /\ sls.bytes_read = AcceptedBytes
            /\ scb.bytes_read = AcceptedBytes)
    /\ [][InService =>
            /\ sls'.bytes_read >= sls.bytes_read
            /\ scb'.bytes_read >= scb.bytes_read]_vars

\* the counters stand at the limit after the first chunk and a chunk
\* forwarded by the wrappers
C30_Witness ==
    /\ pc = "svc_handler"
    /\ Len(delivered) = 2
    /\ delivered[1].kind = "chunk" /\ delivered[1].len > 0
    /\ delivered[2].kind = "chunk" /\ delivered[2].len > 0
    /\ sls.bytes_read = delivered[1].len + delivered[2].len
    /\ sls.bytes_read = sls.max_size

(***************************************************************************)
(* Properties of one poll of the wrappers                                  *)
(***************************************************************************)

\* the item the step's poll gave the inner service, None if it is pending
ItemOfPoll == IF delivered' = delivered THEN None ELSE Some(delivered'[Len(delivered')])

\* C31: a poll of the body that rejects a chunk, that is pending or that
\* reports the end of the stream leaves bytes_read of both wrappers as it
\* was; bytes_read changes only on a poll in which the wrappers forward a
\* chunk, and then by the size of that chunk; has_errored never goes back
\* from set to unset.
C31_PollFrame ==
    [][/\ InService =>
            /\ sls.has_errored => sls'.has_errored
            /\ scb.has_errored => scb'.has_errored
       /\ (pc = "svc_handler" /\ pc' = "svc_handler") =>
            /\ (ItemOfPoll = None \/ ItemOfPoll[1].kind \in {"err", "eos"}) =>
                  /\ sls'.bytes_read = sls.bytes_read
                  /\ scb'.bytes_read = scb.bytes_read
            /\ (sls'.bytes_read # sls.bytes_read \/ scb'.bytes_read # scb.bytes_read) =>
                  /\ ItemOfPoll # None
                  /\ ItemOfPoll[1].kind = "chunk"
                  /\ last_poll'.producer_polled
                  /\ sls'.bytes_read = sls.bytes_read + ItemOfPoll[1].len
                  /\ scb'.bytes_read = scb.bytes_read + ItemOfPoll[1].len]_vars

\* the second chunk was rejected as BodyTooLarge: both latches are set and the
\* counters still hold the size of the first chunk
C31_Witness ==
    /\ pc = "svc_handler"
    /\ Len(delivered) = 2
    /\ delivered[1].kind = "chunk" /\ delivered[1].len > 0
    /\ delivered[2].kind = "err"
    /\ delivered[2].err.tag = BodyTooLarge(0, 0).tag
    /\ sls.has_errored /\ scb.has_errored
    /\ sls.bytes_read = delivered[1].len
    /\ scb.bytes_read = delivered[1].len

(***************************************************************************)
(* Properties of the two stages of the body                                *)
(***************************************************************************)

SizeViolations == {BodyTooLarge(0, 0).tag, ChunkTooLarge(0, 0).tag, SizeOverflow.tag}

\* what the inner stage gives the outer stage if it is polled now
InnerStagePoll ==
    SizeLimitedStream_poll_next(sls, data_stream_poll(req.body, prod_pos, TRUE))

ErrorsDelivered == Len(SelectSeq(delivered, LAMBDA item : item.kind = "err"))

\* C32: the two wrappers of the body call builds hold the same bytes_read
\* from their construction on and after every chunk they forward; the outer
\* wrapper forwards every chunk the inner wrapper forwards, so a size
\* violation is always the inner wrapper's: the step that delivers it sets
\* the inner latch and the outer latch, and the inner service is never given
\* more than one error item.
C32_StagesAgree ==
    /\ []((InService /\ handler_calls = 1) =>
            /\ sls.bytes_read = scb.bytes_read
            /\ sls.max_size = scb.max_size
            /\ ErrorsDelivered <= 1
            /\ (pc = "svc_handler" /\ first_chunk = None /\ ~scb.has_errored
                  /\ InnerStagePoll.out.kind = "chunk") =>
                  SizeCheckingBody_poll_next(scb, InnerStagePoll.out).out
                      = InnerStagePoll.out)
    /\ [][(pc = "svc_handler" /\ pc' = "svc_handler" /\ ItemOfPoll # None
              /\ ItemOfPoll[1].kind = "err"
              /\ ItemOfPoll[1].err.tag \in SizeViolations) =>
            /\ ~sls.has_errored /\ sls'.has_errored
            /\ ~scb.has_errored /\ scb'.has_errored
            /\ InnerStagePoll.out = ItemOfPoll[1]]_vars

\* two chunks were forwarded and the third was rejected: the counters agree
\* on the size of the two and one error item was delivered
C32_Witness ==
    /\ pc = "svc_handler"
    /\ Len(delivered) = 3
    /\ delivered[2].kind = "chunk" /\ delivered[2].len > 0
    /\ delivered[3].kind = "err" /\ delivered[3].err.tag \in SizeViolations
    /\ sls.bytes_read = delivered[1].len + delivered[2].len
    /\ scb.bytes_read = sls.bytes_read
    /\ ErrorsDelivered = 1

(***************************************************************************)
(* Properties of the call of next in stream_with_limit                     *)
(***************************************************************************)

\* stream_with_limit has run next
StreamedHandlerInvoked ==
    /\ pc \in {"mw_handler_streamed", "mw_done"}
    /\ task.pc # "idle"
    /\ handler_calls >= 1

\* C33: in every state in which stream_with_limit has run next, its task has
\* ended after reading the whole body, without a producer error, with
\* total_size at most max_size, and has sent should_call_handler = true;
\* limit_exceeded is false, and the response is never the 413 of the check
\* of that flag after next.
C33_HandlerAfterWholeBody ==
    StreamedHandlerInvoked =>
        /\ task.pc = "done"
        /\ prod_pos = Len(req.body)
        /\ NoTransportError(req.body)
        /\ task.total_size <= max_size
        /\ handler_signal = [state |-> "value", value |-> TRUE]
        /\ ~limit_exceeded
        /\ handler_calls = 1
        /\ response # None => response[1].origin # "limit_flag"

\* next was run on a body of two chunks that fills its limit, and its
\* response was returned
C33_Witness ==
    /\ StreamedHandlerInvoked
    /\ pc = "mw_done"
    /\ Len(req.body) >= 2
    /\ task.total_size = max_size
    /\ response = Some(Response(200, "handler", NoError))

(***************************************************************************)
(* Properties of what SizeLimitService gives its caller                    *)
(***************************************************************************)

\* C34: poll_ready returns Ready(Ok) exactly when the inner service's
\* poll_ready does and Pending otherwise, and call never panics: once the
\* inner service has returned or the request was rejected, call has resolved
\* to a response.
C34_NeverFails ==
    /\ readiness # None =>
          readiness[1].result =
              IF readiness[1].inner = "Ready(Ok)" THEN "Ready(Ok)" ELSE "Pending"
    /\ pc # "svc_panicked"
    /\ (InService /\ handler_ret # None) => (pc = "svc_done" /\ response # None)

(***************************************************************************)
(* Properties of the body that fills its limit exactly                     *)
(***************************************************************************)

\* the request is in with_size_limit, its limit resolved
InMiddleware ==
    pc \in {"mw_buffer", "mw_wait", "mw_handler_buffered", "mw_handler_streamed",
            "mw_done", "mw_cancelled"}

\* the body is produced without error and is exactly as large as the limit
FillsLimit == NoTransportError(req.body) /\ SumLenOf(req.body) = max_size

\* the service has not refused the request and none of its wrappers has
\* reported or latched an error
NotRefusedByService ==
    /\ pc \notin {"svc_start", "svc_peek"} => handler_calls = 1
    /\ ~sls.has_errored /\ ~scb.has_errored
    /\ ErrorsDelivered = 0

\* the wrappers of the service are polled, the producer's next chunk brings
\* the count to exactly max_size, and the step forwards that chunk
ForwardsFillingChunk ==
    (/\ pc = "svc_handler" /\ first_chunk = None /\ ~scb.has_errored
     /\ prod_pos < Len(req.body)
     /\ req.body[prod_pos + 1].kind = "chunk"
     /\ req.body[prod_pos + 1].len <= MAX_INDIVIDUAL_CHUNK_SIZE
     /\ sls.bytes_read + req.body[prod_pos + 1].len = max_size
     /\ prod_pos' = prod_pos + 1)
        => /\ delivered' = Append(delivered, req.body[prod_pos + 1])
           /\ sls'.bytes_read = max_size /\ ~sls'.has_errored
           /\ scb'.bytes_read = max_size /\ ~scb'.has_errored

\* the same for the one-byte-larger chunk, which the step rejects
RejectsChunkAbove ==
    (/\ pc = "svc_handler" /\ first_chunk = None /\ ~scb.has_errored
     /\ prod_pos < Len(req.body)
     /\ req.body[prod_pos + 1].kind = "chunk"
     /\ req.body[prod_pos + 1].len <= MAX_INDIVIDUAL_CHUNK_SIZE
     /\ sls.bytes_read + req.body[prod_pos + 1].len > max_size
     /\ prod_pos' = prod_pos + 1)
        => /\ delivered'[Len(delivered')].kind = "err"
           /\ sls'.has_errored

\* what with_size_limit does with a declared length and a body at the limit
MiddlewareAcceptsAtLimit ==
    /\ (pc # "mw_start" /\ pc \notin {"svc_start", "svc_peek", "svc_handler",
                                     "svc_body_dropped", "svc_done", "svc_panicked"}
          /\ declared_length(req) = Some(max_size))
          => (response # None => response[1].origin # "early_reject")
    /\ (InMiddleware /\ FillsLimit /\ ~limit_exceeded
          /\ (response # None => response[1].origin # "early_reject"))
          => /\ response # None => response[1].status # 413
             /\ pc \in {"mw_handler_buffered", "mw_handler_streamed", "mw_done"}
                   => handler_calls = 1
             /\ pc = "mw_handler_buffered"
                   => SumLenOf(FramesOfNext) = max_size
    /\ (InMiddleware /\ FillsLimit) => ~limit_exceeded

SlotOf(c) == <<c.method, to_lowercase(c.key)>>

\* C36 (as claimed): two builder calls with distinct keys (another method, or
\* another key text) give the same limit for every content type in either
\* order; of two calls with the same key the later one decides.
C36_BuilderCallsCommute_AsClaimed ==
    pc = "order_done" =>
        LET c1 == builder_arg[1].first
            c2 == builder_arg[1].second
        IN  /\ <<c1.method, c1.key>> # <<c2.method, c2.key>> => out = base_out
            /\ <<c1.method, c1.key>> = <<c2.method, c2.key>> =>
                  out = Some(get_limit_for_content_type(builder_call(config, c2),
                                                        ct_arg))

\* C36 (amended): two builder calls that write different entries (another
\* method, or keys that differ apart from their case) give the same limit for every
\* content type in either order; of two calls that write the same entry the
\* later one decides, as if the earlier one had not been made.
C36_BuilderCallsCommute ==
    pc = "order_done" =>
        LET c1 == builder_arg[1].first
            c2 == builder_arg[1].second
        IN  /\ SlotOf(c1) # SlotOf(c2) => out = base_out
            /\ SlotOf(c1) = SlotOf(c2) =>
                  /\ out = Some(get_limit_for_content_type(builder_call(config, c2),
                                                           ct_arg))
                  /\ base_out = Some(get_limit_for_content_type(builder_call(config, c1),
                                                                ct_arg))

\* a wildcard added before and after an exact entry: the exact entry decides
\* in both orders
C36_Witness ==
    /\ pc = "order_done"
    /\ builder_arg[1].first.method = "with_wildcard_limit"
    /\ builder_arg[1].second.method = "with_specific_limit"
    /\ builder_arg[1].first.limit # builder_arg[1].second.limit
    /\ ct_arg = <<"A", "/", "a", ";">>
    /\ out = Some(builder_arg[1].second.limit)
    /\ base_out = out

(***************************************************************************)
(* Properties of the lists of BufferStrategy                               *)
(***************************************************************************)

\* the result does not change when the lists are rearranged
SameWhenRearranged ==
    pc = "buffer_rearranged" =>
        /\ Range(base_out[1].strategy.buffered_types) = Range(strategy.buffered_types)
        /\ Range(base_out[1].strategy.streamed_types) = Range(strategy.streamed_types)
        /\ base_out[1].result = out[1]

\* a wildcard pattern for the type n stands in both lists
WildcardInBoth(n) ==
    \E e \in Range(strategy.buffered_types) \cap Range(strategy.streamed_types) :
        IsWildcardFor(e, n)

\* C37 (as claimed): should_buffer gives the same result when the entries of
\* a list are permuted or duplicated; a type that stands in both lists is
\* buffered, and so is a type that a wildcard pattern standing in both lists
\* matches.
C37_ListsAreSets_AsClaimed ==
    /\ SameWhenRearranged
    /\ pc \in {"buffer_done", "buffer_rearranged"} =>
          LET n == ct_trimmed_of(ct_arg)
          IN  /\ (Rule1(strategy, n) /\ Rule2(strategy, n)) => out = Some(TRUE)
              /\ WildcardInBoth(n) => out = Some(TRUE)

\* C37 (amended): the same, the wildcard pattern in both lists deciding only
\* for a type that is neither an exact entry of streamed_types nor, when the
\* pattern is not its own type/*, matched by a type/* entry of streamed_types.
C37_ListsAreSets ==
    /\ SameWhenRearranged
    /\ pc \in {"buffer_done", "buffer_rearranged"} =>
          LET n == ct_trimmed_of(ct_arg)
          IN  /\ (Rule1(strategy, n) /\ Rule2(strategy, n)) => out = Some(TRUE)
              /\ (WildcardInBoth(n) /\ ~Rule2(strategy, n)
                    /\ (Rule4(strategy, n) => Rule3(strategy, n)))
                    => out = Some(TRUE)

\* a wildcard in both lists decided for buffering, with the lists of two
\* patterns each in another order and the default pointing the other way
C37_Witness ==
    /\ pc = "buffer_rearranged"
    /\ Len(strategy.buffered_types) = 2
    /\ base_out[1].strategy.buffered_types = Reverse(strategy.buffered_types)
    /\ base_out[1].strategy.buffered_types # strategy.buffered_types
    /\ WildcardInBoth(ct_trimmed_of(ct_arg))
    /\ ~strategy.default_is_buffered
    /\ out = Some(TRUE)
    /\ base_out[1].result

(***************************************************************************)
(* Properties of the forwarding task once the receiver is gone             *)
(***************************************************************************)

TaskOver == task.pc \in {"done", "panicked"}

\* C38: once the receiver of the channel is dropped while the forwarding
\* task runs, the task takes at most one more item from the producer (none
\* if it is in a send), ends at its send without putting anything in the
\* channel, and stays ended; next is never run for the request, and the task
\* does end.
C38_TaskStopsAfterDrop ==
    /\ [](rx_dropped => (pc = "mw_cancelled" /\ handler_calls = 0 /\ response = None))
    /\ [][rx_dropped =>
            /\ chan' = chan
            /\ prod_pos' # prod_pos =>
                  (task.pc = "next" /\ prod_pos' = prod_pos + 1 /\ task'.pc # "next")
            /\ task.pc \in {"send", "send_err"} => (task'.pc = "done" /\ prod_pos' = prod_pos)
            /\ TaskOver => task' = task]_vars
    /\ (rx_dropped ~> TaskOver)

\* the task ended at a send that failed, with items of the body unread
C38_Witness ==
    /\ rx_dropped
    /\ task.pc = "done"
    /\ task.item.kind = "chunk"
    /\ ~limit_exceeded
    /\ handler_signal = [state |-> "value", value |-> FALSE]
    /\ prod_pos >= 2
    /\ prod_pos < Len(req.body)
    /\ NoTransportError(req.body)

(***************************************************************************)
(* Properties of total_size in the forwarding task                         *)
(***************************************************************************)

\* the bytes of the chunks the task has taken from the producer
BytesTaken == SumLenOf(ChunksOf(SubSeq(req.body, 1, prod_pos)))

\* C39: in the forwarding task of stream_with_limit total_size is the sum of
\* the sizes of the chunks read so far, whatever max_size is, and the task
\* has found the limit exceeded exactly when that sum is above max_size.
C39_TotalSizeIsSum ==
    (InMiddleware /\ task.pc # "idle") =>
        /\ task.total_size = BytesTaken
        /\ limit_exceeded <=> BytesTaken > max_size

====
